---- MODULE Spec2Model ----
(***************************************************************************)
(* Suburb data service: the fallback data-access layer (remote adapter,    *)
(* local snapshot adapter, fallback coordinator), the per-domain           *)
(* canonicalization of the orchestrator and the routes in front of it.     *)
(*                                                                         *)
(* The program keeps no state between requests.  The state of the model is *)
(* the last operation invoked (call), what it did to its collaborators     *)
(* (apiLog, fileLog, requests, loads) and what it gave back to its caller  *)
(* (result, raised, status).                                               *)
(***************************************************************************)
EXTENDS Integers, Sequences, FiniteSets, TLC

VARIABLES
    call,      \* the operation invoked last, with its inputs
    apiLog,    \* calls the coordinator made on the remote adapter: <<method, args>>
    fileLog,   \* calls the coordinator made on the local adapter:  <<method, args>>
    requests,  \* HTTP requests the remote service received (endpoint names)
    loads,     \* snapshot files the local adapter opened
    result,    \* the value returned to the caller (None when it raised)
    raised,    \* TRUE when an exception left the operation
    status     \* HTTP status of the route's response (0: no route involved)

vars == <<call, apiLog, fileLog, requests, loads, result, raised, status>>

----------------------------------------------------------------------------
(* Python / JSON values.  Every value carries its type, a dict keeps its   *)
(* items in insertion order as <<key, value>> pairs with distinct keys.    *)

None == [t |-> "none"]
Num(n) == [t |-> "num", n |-> n]
Str(s) == [t |-> "str", s |-> s]
List(q) == [t |-> "list", l |-> q]
Dict(items) == [t |-> "dict", items |-> items]

EmptyDict == Dict(<<>>)
EmptyList == List(<<>>)

IsNone(v) == v.t = "none"
IsDict(v) == v.t = "dict"
IsList(v) == v.t = "list"
IsNum(v) == v.t = "num"
IsStr(v) == v.t = "str"

\* bool(v): None, 0, "", {} and [] are false
Truthy(v) ==
    CASE v.t = "none" -> FALSE
      [] v.t = "num"  -> v.n # 0
      [] v.t = "str"  -> v.s # ""
      [] v.t = "list" -> Len(v.l) > 0
      [] v.t = "dict" -> Len(v.items) > 0

Keys(d) == [i \in 1..Len(d.items) |-> d.items[i][1]]
Values(d) == [i \in 1..Len(d.items) |-> d.items[i][2]]

\* k in d
Has(d, k) == \E i \in 1..Len(d.items) : d.items[i][1] = k

\* d.get(k, dflt)
Get(d, k, dflt) ==
    IF Has(d, k)
    THEN d.items[CHOOSE i \in 1..Len(d.items) : d.items[i][1] = k][2]
    ELSE dflt

\* d[k] = v: an existing key keeps its position, a new key goes last
Put(d, k, v) ==
    IF Has(d, k)
    THEN Dict([i \in 1..Len(d.items) |->
                 IF d.items[i][1] = k THEN <<k, v>> ELSE d.items[i]])
    ELSE Dict(Append(d.items, <<k, v>>))

\* q[:n]
Take(q, n) == SubSeq(q, 1, IF Len(q) < n THEN Len(q) ELSE n)

\* what a call gives back: a return value, or an exception
Ok(v) == [raised |-> FALSE, ret |-> v]
Raise == [raised |-> TRUE, ret |-> None]

----------------------------------------------------------------------------
(* Bounds and the inputs drawn from them.                                  *)

MaxSnapshot == 2    \* entries of a snapshot file

\* identifiers a request may name, and identifiers a snapshot may hold
Ids == {"carlton-3053", "richmond-3121"}
SnapshotIds == {"carlton-3053", "fitzroy-3065", "richmond-3121"}

Queries == {"", "carl", "zzz"}
SuburbNames == {"Carlton", "Fitzroy"}

\* query_lower in name.lower(), for the queries and names above
Matches(q, name) ==
    \/ q = ""
    \/ (q = "carl" /\ name = "Carlton")

Ops ==
    {"search_suburbs", "get_suburb_info", "get_suburb_summary",
     "get_demographics", "get_amenities", "get_market_trends", "get_schools",
     "get_developments", "get_market_insights", "get_pocket_insights",
     "get_street_insights", "get_risk_factors", "get_school_catchments",
     "get_zoning", "get_similar_suburbs", "get_street_rankings"}

\* the operations the coordinator routes through _try_api_then_file
FallbackOps == Ops \ {"search_suburbs", "get_street_rankings"}

GeoOps ==
    {"get_suburb_info", "get_risk_factors", "get_school_catchments",
     "get_zoning", "get_similar_suburbs"}
PocketOps == {"get_pocket_insights", "get_street_insights"}

PropertyTypes == {None, Str("house")}
Metrics == {None, Str("sell_price")}

\* the arguments an operation is invoked with (signatures of SuburbRepository)
ArgsOf(op) ==
    CASE op = "search_suburbs" -> [query : Queries]
      [] op \in GeoOps -> [suburb_id : Ids, geojson : BOOLEAN]
      [] op \in PocketOps ->
            [suburb_id : Ids, geojson : BOOLEAN, property_type : PropertyTypes]
      [] op = "get_market_insights" ->
            [suburb_id : Ids, metric : Metrics, property_type : PropertyTypes]
      [] op = "get_street_rankings" ->
            [suburb_id : Ids, property_type : PropertyTypes]
      [] OTHER -> [suburb_id : Ids]

----------------------------------------------------------------------------
(* MicroburbsApiService: one HTTP GET per service method.                  *)

Endpoints ==
    {"/suburb/info", "/suburb/summary", "/suburb/demographics",
     "/suburb/ethnicity", "/suburb/amenity", "/suburb/market", "/suburb/risk",
     "/suburb/suburbs", "/suburb/development", "/suburb/pocket",
     "/suburb/streets", "/suburb/schools", "/suburb/catchments",
     "/suburb/zoning", "/suburb/similar"}

\* what can go wrong between requests.get and response.json()
TransportFailures ==
    {"timeout", "connection_error", "http_error", "request_exception",
     "bad_body"}

\* bodies the service answers with (JSON objects)
BodyResults == Dict(<< <<"results", List(<< Dict(<< <<"area_name", Str("Carlton")>> >>) >>)>> >>)
BodyEthnicities == Dict(<< <<"ethnicities", List(<< Dict(<< <<"name", Str("English")>> >>) >>)>> >>)
BodyInfo == Dict(<< <<"information", Dict(<< <<"geo_divisions", EmptyDict>> >>)>> >>)
Bodies == {EmptyDict, BodyResults, BodyEthnicities, BodyInfo}

Responses ==
    [kind : TransportFailures] \cup [kind : {"ok"}, body : Bodies]

\* as _make_request, without the handler for a body that is not JSON
make_request_no_value_error(resp) ==
    IF resp.kind = "ok" THEN Ok(resp.body)
    ELSE IF resp.kind = "bad_body" THEN Raise
    ELSE Ok(None)

\* _make_request: every failure of the transport is caught and becomes None
make_request(resp) ==
    CASE resp.kind = "ok" -> Ok(resp.body)
      [] resp.kind = "timeout" -> Ok(None)
      [] resp.kind = "connection_error" -> Ok(None)
      [] resp.kind = "http_error" -> Ok(None)
      [] resp.kind = "request_exception" -> Ok(None)
      [] resp.kind = "bad_body" -> Ok(None)

\* a service method: the request it sends and what comes back
Service(net, endpoint) ==
    LET r == make_request(net[endpoint])
    IN  [raised |-> r.raised, ret |-> r.ret, requests |-> <<endpoint>>]

----------------------------------------------------------------------------
(* ApiSuburbRepository, the remote adapter.                                *)

\* operations that hand the service's answer on as it is
ApiEndpoint(op) ==
    CASE op = "get_suburb_info" -> "/suburb/info"
      [] op = "get_suburb_summary" -> "/suburb/summary"
      [] op = "get_market_insights" -> "/suburb/market"
      [] op = "get_pocket_insights" -> "/suburb/pocket"
      [] op = "get_risk_factors" -> "/suburb/risk"
      [] op = "get_school_catchments" -> "/suburb/catchments"
      [] op = "get_zoning" -> "/suburb/zoning"
      [] op = "get_similar_suburbs" -> "/suburb/similar"
      [] op = "get_amenities" -> "/suburb/amenity"
      [] op = "get_market_trends" -> "/suburb/market"
      [] op = "get_schools" -> "/suburb/schools"
      [] op = "get_developments" -> "/suburb/development"
      [] op = "get_street_insights" -> "/suburb/streets"

ApiWrapOps ==
    {"get_amenities", "get_market_trends", "get_schools", "get_developments",
     "get_street_insights"}

\* return self.api_service.<method>(suburb_name, ...)
Api_passthrough(op, args, net) == Service(net, ApiEndpoint(op))

\* return {suburb_id: data} if data else None
Api_wrapped(op, args, net) ==
    LET r == Service(net, ApiEndpoint(op))
    IN  IF r.raised THEN r
        ELSE [r EXCEPT !.ret =
                 IF Truthy(r.ret)
                 THEN Dict(<< <<args.suburb_id, r.ret>> >>)
                 ELSE None]

Api_search_suburbs(args, net) ==
    LET r == Service(net, "/suburb/suburbs")
    IN  IF r.raised THEN r
        ELSE [r EXCEPT !.ret =
                 IF Truthy(r.ret) /\ Has(r.ret, "results")
                 THEN List(Take(Get(r.ret, "results", None).l, 10))
                 ELSE EmptyList]

\* as get_demographics, asking for the demographics again after an empty answer
Api_get_demographics_retry(args, net) ==
    LET d == Service(net, "/suburb/demographics")
    IN  IF d.raised THEN d
        ELSE IF ~Truthy(d.ret)
             THEN [d EXCEPT !.ret = None, !.requests = d.requests \o d.requests]
             ELSE [d EXCEPT !.ret = Dict(<< <<args.suburb_id, d.ret>> >>)]

\* demographics first; the ethnicity request follows only when they came back
Api_get_demographics(args, net) ==
    LET d == Service(net, "/suburb/demographics")
        e == Service(net, "/suburb/ethnicity")
        merged ==
            IF ~Truthy(e.ret) THEN d.ret
            ELSE IF Has(e.ret, "results")
                 THEN IF ~Has(d.ret, "results")
                      THEN Put(d.ret, "results", Get(e.ret, "results", None))
                      ELSE d.ret
                 ELSE IF Has(e.ret, "ethnicities")
                      THEN Put(d.ret, "ethnicities",
                               Get(e.ret, "ethnicities", None))
                      ELSE d.ret
    IN  IF d.raised THEN d
        ELSE IF ~Truthy(d.ret) THEN [d EXCEPT !.ret = None]
        ELSE IF e.raised
             THEN [e EXCEPT !.requests = d.requests \o e.requests]
             ELSE [raised |-> FALSE,
                   ret |-> Dict(<< <<args.suburb_id, merged>> >>),
                   requests |-> d.requests \o e.requests]

\* "not implemented in base API": no request is sent
Api_get_street_rankings(args, net) ==
    [raised |-> FALSE, ret |-> None, requests |-> <<>>]

ApiRepo(op, args, net) ==
    CASE op = "search_suburbs" -> Api_search_suburbs(args, net)
      [] op = "get_demographics" -> Api_get_demographics(args, net)
      [] op = "get_street_rankings" -> Api_get_street_rankings(args, net)
      [] op \in ApiWrapOps -> Api_wrapped(op, args, net)
      [] OTHER -> Api_passthrough(op, args, net)

----------------------------------------------------------------------------
(* FileSuburbRepository, the local adapter over one snapshot per domain.   *)

\* the entry a snapshot holds for an identifier
Entry(id) == Dict(<< <<"owner", Str(id)>> >>)

\* sequences of distinct identifiers, at most n long
RECURSIVE KeyOrders(_)
KeyOrders(n) ==
    IF n = 0 THEN {<<>>}
    ELSE LET shorter == KeyOrders(n - 1)
         IN  shorter \cup
             {Append(q, k) : q \in {r \in shorter : Len(r) = n - 1},
                             k \in SnapshotIds}

DistinctKeyOrders ==
    {q \in KeyOrders(MaxSnapshot) :
        \A i, j \in 1..Len(q) : i # j => q[i] # q[j]}

\* snapshots keyed by identifier, in the order the file lists them
Snapshots ==
    {Dict([i \in 1..Len(q) |-> <<q[i], Entry(q[i])>>]) : q \in DistinctKeyOrders}

SuburbRow(name) == Dict(<< <<"name", Str(name)>> >>)

\* suburbs.json: {"suburbs": [...]}, or an object without that key
SuburbLists ==
    {Dict(<< <<"suburbs", List(<<SuburbRow("Carlton"), SuburbRow("Fitzroy")>>)>> >>),
     Dict(<< <<"suburbs", EmptyList>> >>),
     Dict(<< <<"version", Num(1)>> >>),
     EmptyDict}

LoadFailures == {"missing", "unparsable", "unreadable"}

FileStates == [kind : LoadFailures] \cup [kind : {"ok"}, data : Snapshots]
SuburbsFileStates == [kind : LoadFailures] \cup [kind : {"ok"}, data : SuburbLists]

\* as _load_file, but of a file that fails to parse the entries read so far
\* are kept
load_file_keeps_partial(f) ==
    IF f.kind = "ok" THEN f.data
    ELSE IF f.kind = "unparsable"
    THEN Dict(<< <<"fitzroy-3065", Entry("fitzroy-3065")>> >>)
    ELSE None

\* _load_file: FileNotFoundError, JSONDecodeError and any other error give None
load_file(f) ==
    CASE f.kind = "ok" -> f.data
      [] f.kind = "missing" -> None
      [] f.kind = "unparsable" -> None
      [] f.kind = "unreadable" -> None

FileName(op) ==
    CASE op = "search_suburbs" -> "suburbs.json"
      [] op = "get_suburb_info" -> "suburb_info.json"
      [] op = "get_suburb_summary" -> "suburb_summary.json"
      [] op = "get_demographics" -> "demographics.json"
      [] op = "get_amenities" -> "amenities.json"
      [] op = "get_market_trends" -> "market_trends.json"
      [] op = "get_schools" -> "schools.json"
      [] op = "get_developments" -> "developments.json"
      [] op = "get_market_insights" -> "market_insights.json"
      [] op = "get_pocket_insights" -> "pocket_insights.json"
      [] op = "get_street_insights" -> "street_insights.json"
      [] op = "get_risk_factors" -> "risk_factors.json"
      [] op = "get_school_catchments" -> "school_catchments.json"
      [] op = "get_zoning" -> "zoning.json"
      [] op = "get_similar_suburbs" -> "similar_suburbs.json"

\* [s for s in suburbs if query_lower in s.get('name', '').lower()]
RECURSIVE FilterSuburbs(_, _)
FilterSuburbs(rows, q) ==
    IF rows = <<>> THEN <<>>
    ELSE LET rest == FilterSuburbs(Tail(rows), q)
         IN  IF Matches(q, Get(Head(rows), "name", Str("")).s)
             THEN <<Head(rows)>> \o rest
             ELSE rest

File_search_suburbs(args, f) ==
    LET data == load_file(f)
        suburbs == Get(data, "suburbs", EmptyList).l
    IN  [raised |-> FALSE,
         ret |-> IF ~Truthy(data) THEN EmptyList
                 ELSE List(Take(IF args.query # ""
                                THEN FilterSuburbs(suburbs, args.query)
                                ELSE suburbs, 10)),
         loads |-> <<"suburbs.json">>]

InfoOps == {"get_suburb_info", "get_suburb_summary"}

\* get_suburb_info, get_suburb_summary: data.get(suburb_id), no stand-in
File_lookup(op, args, f) ==
    LET data == load_file(f)
    IN  [raised |-> FALSE,
         ret |-> IF Truthy(data) THEN Get(data, args.suburb_id, None) ELSE None,
         loads |-> <<FileName(op)>>]

SubstitutingOps ==
    {"get_demographics", "get_amenities", "get_market_trends", "get_schools",
     "get_developments"}

\* the "empty structure" of each of these domains
DefaultStructure(op) ==
    CASE op = "get_demographics" ->
            Dict(<< <<"ageDistribution", EmptyList>>, <<"ethnicity", EmptyList>> >>)
      [] op = "get_amenities" ->
            Dict(<< <<"categories", EmptyList>>, <<"total", Num(0)>> >>)
      [] op = "get_market_trends" ->
            Dict(<< <<"priceHistory", EmptyList>>, <<"quarterlyGrowth", Num(0)>>,
                    <<"rentalYield", Num(0)>>, <<"daysOnMarket", Num(0)>> >>)
      [] op = "get_schools" ->
            Dict(<< <<"schools", EmptyList>>, <<"total", Num(0)>> >>)
      [] op = "get_developments" ->
            Dict(<< <<"developments", EmptyList>>, <<"total", Num(0)>>,
                    <<"showing", Num(0)>> >>)

\* as these five operations, with the empty structure for an unknown identifier
File_substituting_strict(op, args, f) ==
    LET data == load_file(f)
        sid == args.suburb_id
    IN  [raised |-> FALSE,
         ret |-> IF Truthy(data) /\ Has(data, sid)
                 THEN Dict(<< <<sid, Get(data, sid, None)>> >>)
                 ELSE Dict(<< <<sid, DefaultStructure(op)>> >>),
         loads |-> <<FileName(op)>>]

\* demographics .. developments: the entry, else the first entry of the
\* snapshot under the requested identifier, else the empty structure
File_substituting(op, args, f) ==
    LET data == load_file(f)
        sid == args.suburb_id
    IN  [raised |-> FALSE,
         ret |-> IF Truthy(data) /\ Has(data, sid)
                 THEN Dict(<< <<sid, Get(data, sid, None)>> >>)
                 ELSE IF Truthy(data)
                      THEN Dict(<< <<sid, Get(data, Keys(data)[1], None)>> >>)
                      ELSE Dict(<< <<sid, DefaultStructure(op)>> >>),
         loads |-> <<FileName(op)>>]

ListDefaultOps == {"get_school_catchments", "get_similar_suburbs"}

\* market insights .. similar suburbs: data.get(suburb_id, {}) (or [])
File_defaulting(op, args, f) ==
    LET data == load_file(f)
        empty == IF op \in ListDefaultOps THEN EmptyList ELSE EmptyDict
    IN  [raised |-> FALSE,
         ret |-> Dict(<< <<args.suburb_id,
                           IF Truthy(data)
                           THEN Get(data, args.suburb_id, empty)
                           ELSE empty>> >>),
         loads |-> <<FileName(op)>>]

\* "not implemented in file repository": no file is read
File_get_street_rankings(args, f) ==
    [raised |-> FALSE, ret |-> None, loads |-> <<>>]

FileRepo(op, args, f) ==
    CASE op = "search_suburbs" -> File_search_suburbs(args, f)
      [] op \in InfoOps -> File_lookup(op, args, f)
      [] op \in SubstitutingOps -> File_substituting(op, args, f)
      [] op = "get_street_rankings" -> File_get_street_rankings(args, f)
      [] OTHER -> File_defaulting(op, args, f)

\* the snapshot states an operation may find
FileStatesOf(op) ==
    IF op = "search_suburbs" THEN SuburbsFileStates ELSE FileStates

----------------------------------------------------------------------------
(* CompositeSuburbRepository, the fallback coordinator.  api and file are  *)
(* what the two adapters do when (and if) their method is called.          *)

\* as _try_api_then_file, but the local adapter is consulted in every case
try_api_then_file_eager(op, args, api, file) ==
    [raised |-> FALSE,
     ret |-> IF ~api.raised /\ Truthy(api.ret) THEN api.ret
             ELSE IF ~file.raised /\ Truthy(file.ret) THEN file.ret ELSE None,
     apiLog |-> << <<op, args>> >>, fileLog |-> << <<op, args>> >>,
     requests |-> api.requests, loads |-> file.loads]

\* _try_api_then_file(method_name, *args, **kwargs)
try_api_then_file(op, args, api, file) ==
    IF ~api.raised /\ Truthy(api.ret)
    THEN [raised |-> FALSE, ret |-> api.ret,
          apiLog |-> << <<op, args>> >>, fileLog |-> <<>>,
          requests |-> api.requests, loads |-> <<>>]
    ELSE [raised |-> FALSE,
          ret |-> IF ~file.raised /\ Truthy(file.ret) THEN file.ret ELSE None,
          apiLog |-> << <<op, args>> >>, fileLog |-> << <<op, args>> >>,
          requests |-> api.requests, loads |-> file.loads]

\* return result if result else []
Composite_search_suburbs(args, api, file) ==
    LET r == try_api_then_file("search_suburbs", args, api, file)
    IN  [r EXCEPT !.ret = IF Truthy(r.ret) THEN r.ret ELSE EmptyList]

\* the second definition of get_street_rankings in the class, which is the
\* one Python binds: both adapters are called outside any try block
Composite_get_street_rankings(args, api, file) ==
    IF api.raised
    THEN [raised |-> TRUE, ret |-> None,
          apiLog |-> << <<"get_street_rankings", args>> >>, fileLog |-> <<>>,
          requests |-> api.requests, loads |-> <<>>]
    ELSE IF Truthy(api.ret)
    THEN [raised |-> FALSE, ret |-> api.ret,
          apiLog |-> << <<"get_street_rankings", args>> >>, fileLog |-> <<>>,
          requests |-> api.requests, loads |-> <<>>]
    ELSE [raised |-> file.raised,
          ret |-> IF file.raised THEN None ELSE file.ret,
          apiLog |-> << <<"get_street_rankings", args>> >>,
          fileLog |-> << <<"get_street_rankings", args>> >>,
          requests |-> api.requests, loads |-> file.loads]

Composite(op, args, api, file) ==
    CASE op = "search_suburbs" -> Composite_search_suburbs(args, api, file)
      [] op = "get_street_rankings" -> Composite_get_street_rankings(args, api, file)
      [] OTHER -> try_api_then_file(op, args, api, file)

----------------------------------------------------------------------------
(* Adapters handed to the coordinator's constructor in place of the real   *)
(* ones (api_repo, file_repo): they return any value, or raise.            *)

StubData == Dict(<< <<"carlton-3053", Entry("carlton-3053")>> >>)
StubRows == List(<<SuburbRow("Carlton")>>)
StubReturns == {None, EmptyDict, EmptyList, StubData, StubRows}

StubApi ==
    [raised : {FALSE}, ret : StubReturns, requests : {<<>>}]
        \cup {[raised |-> TRUE, ret |-> None, requests |-> <<>>]}
StubFile ==
    [raised : {FALSE}, ret : StubReturns, loads : {<<>>}]
        \cup {[raised |-> TRUE, ret |-> None, loads |-> <<>>]}

\* the remote service as the real remote adapter finds it
Nets ==
    {[e \in Endpoints |-> IF e = "/suburb/ethnicity" THEN r2 ELSE r1] :
        r1 \in Responses, r2 \in Responses}

----------------------------------------------------------------------------
(* DataAggregatorService: canonicalization.  Numbers are fixed-point:      *)
(* Num(n) is n / Scale, so that proportions and one-decimal percentages    *)
(* are exact.  A step that raises in Python gives Raise.                   *)

Scale == 1000
Whole(k) == Num(k * Scale)

\* round half to even of p / q, for q > 0
RoundDiv(p, q) ==
    LET lo == p \div q
        r2 == 2 * (p % q)
    IN  IF r2 < q THEN lo
        ELSE IF r2 > q THEN lo + 1
        ELSE IF lo % 2 = 0 THEN lo ELSE lo + 1

\* round(x, 1) of the fixed-point number n
Round1(n) == RoundDiv(n, Scale \div 10) * (Scale \div 10)

\* for x in v: a list gives its entries, a dict its keys; None and numbers
\* are not iterable
Iterate(v) ==
    CASE v.t = "list" -> Ok(v.l)
      [] v.t = "dict" -> Ok([i \in 1..Len(v.items) |-> Str(v.items[i][1])])
      [] v.t = "none" -> Raise
      [] v.t = "num" -> Raise

\* a value that can be a dict key
Hashable(v) == v.t \notin {"list", "dict"}

\* key in v, for a key that is a string
Contains(v, key) ==
    CASE v.t = "dict" -> Ok(Has(v, key))
      [] v.t = "list" -> Ok(\E i \in 1..Len(v.l) : v.l[i] = Str(key))
      [] v.t = "str" -> Ok(v.s = key)   \* a text holds a key only by being it
      [] v.t = "none" -> Raise
      [] v.t = "num" -> Raise

\* sorted(rows, key=lambda x: x[field], reverse=True) over numbers: stable
RECURSIVE InsertDesc(_, _, _)
InsertDesc(sorted, row, field) ==
    IF sorted = <<>> THEN <<row>>
    ELSE IF Get(Head(sorted), field, None).n >= Get(row, field, None).n
         THEN <<Head(sorted)>> \o InsertDesc(Tail(sorted), row, field)
         ELSE <<row>> \o sorted

RECURSIVE SortDesc(_, _)
SortDesc(rows, field) ==
    IF rows = <<>> THEN <<>>
    ELSE InsertDesc(SortDesc(SubSeq(rows, 1, Len(rows) - 1), field),
                    rows[Len(rows)], field)

(* ---- demographics ---- *)

\* the loop over raw_data['age_brackets']: persons only, grouped by age
RECURSIVE AgeGroups(_, _)
AgeGroups(brackets, groups) ==
    IF brackets = <<>> THEN Ok(groups)
    ELSE LET b == Head(brackets)
         IN  IF ~IsDict(b) THEN Raise
             ELSE IF Get(b, "gender", None) # Str("persons")
                  THEN AgeGroups(Tail(brackets), groups)
             ELSE LET age == Get(b, "age", Str(""))
                      proportion == Get(b, "proportion", Num(0))
                  IN  IF ~IsNum(proportion) \/ ~Hashable(age) THEN Raise
                      ELSE AgeGroups(Tail(brackets),
                             Put(groups, age,
                                 Dict(<< <<"age", age>>,
                                         <<"population", Num(0)>>,
                                         <<"percentage",
                                           Num(Round1(proportion.n * 100))>> >>)))

\* the loop over raw_data['ethnicities'][:10]
RECURSIVE EthnicityRows(_)
EthnicityRows(eths) ==
    IF eths = <<>> THEN Ok(<<>>)
    ELSE LET eth == Head(eths)
             rest == EthnicityRows(Tail(eths))
         IN  IF ~IsDict(eth) THEN Raise
             ELSE LET p == Get(eth, "proportion", Get(eth, "percentage", Num(0)))
                  IN  IF ~IsNum(p) \/ rest.raised THEN Raise
                      ELSE Ok(<<Dict(<< <<"name",
                                          Get(eth, "ethnicity",
                                              Get(eth, "name", Str("")))>>,
                                        <<"percentage",
                                          Num(Round1(p.n * 100))>> >>)>>
                              \o rest.ret)

\* ethnicity_totals[eth_name] += proportion over the items of one area
RECURSIVE AddProportions(_, _)
AddProportions(items, totals) ==
    IF items = <<>> THEN Ok(totals)
    ELSE LET name == Head(items)[1]
             proportion == Head(items)[2]
         IN  IF ~IsNum(proportion) THEN Raise
             ELSE AddProportions(Tail(items),
                    Put(totals, name, Get(totals, name, 0) + proportion.n))

\* the loop over raw_data['results']: totals per ethnicity, areas counted
RECURSIVE EthnicityTotals(_, _, _)
EthnicityTotals(results, totals, count) ==
    IF results = <<>> THEN [raised |-> FALSE, totals |-> totals, count |-> count]
    ELSE LET r == Head(results)
             has == Contains(r, "ethnicity")
         IN  IF has.raised THEN [raised |-> TRUE, totals |-> totals, count |-> count]
             ELSE IF ~has.ret THEN EthnicityTotals(Tail(results), totals, count)
             ELSE IF ~IsDict(r) THEN [raised |-> TRUE, totals |-> totals, count |-> count]
             ELSE IF ~IsDict(Get(r, "ethnicity", None))
                  THEN EthnicityTotals(Tail(results), totals, count)
             ELSE LET sum == AddProportions(Get(r, "ethnicity", None).items, totals)
                  IN  IF sum.raised
                      THEN [raised |-> TRUE, totals |-> totals, count |-> count]
                      ELSE EthnicityTotals(Tail(results), sum.ret, count + 1)

\* averages of the totals, as percentages with one decimal
EthnicityAverages(totals, count) ==
    [i \in 1..Len(totals.items) |->
        Dict(<< <<"name", Str(totals.items[i][1])>>,
                <<"percentage",
                  Num(RoundDiv(totals.items[i][2] * 100, count * (Scale \div 10))
                        * (Scale \div 10))>> >>)]

\* _transform_demographics_data
transform_demographics_data(raw_data) ==
    IF ~Truthy(raw_data) THEN Ok(EmptyDict)
    ELSE
    LET brackets == Iterate(Get(raw_data, "age_brackets", None))
        groups == AgeGroups(brackets.ret, EmptyDict)
        age == IF ~Has(raw_data, "age_brackets") THEN Ok(EmptyList)
               ELSE IF brackets.raised \/ groups.raised THEN Raise
               ELSE Ok(List(Values(groups.ret)))
        eths == Get(raw_data, "ethnicities", None)
        rows == EthnicityRows(Take(eths.l, 10))
        areas == Iterate(Get(raw_data, "results", None))
        sums == EthnicityTotals(areas.ret, EmptyDict, 0)
        ethnicity ==
            IF Has(raw_data, "ethnicities")
            THEN IF ~IsList(eths) \/ rows.raised THEN Raise
                 ELSE Ok(List(rows.ret))
            ELSE IF Has(raw_data, "results")
            THEN IF areas.raised \/ sums.raised THEN Raise
                 ELSE IF sums.count > 0
                      THEN Ok(List(Take(SortDesc(
                               EthnicityAverages(sums.totals, sums.count),
                               "percentage"), 10)))
                      ELSE Ok(EmptyList)
            ELSE Ok(EmptyList)
    IN  IF age.raised \/ ethnicity.raised THEN Raise
        ELSE Ok(Dict(<< <<"ageDistribution", age.ret>>,
                        <<"ethnicity", ethnicity.ret>> >>))

(* ---- amenities ---- *)

\* category_counts[category] = category_counts.get(category, 0) + 1
RECURSIVE CategoryCounts(_, _)
CategoryCounts(items, counts) ==
    IF items = <<>> THEN Ok(counts)
    ELSE LET item == Head(items)
         IN  IF ~IsDict(item) THEN Raise
             ELSE LET category == Get(item, "category", Str("Other"))
                  IN  IF ~Hashable(category) THEN Raise
                      ELSE CategoryCounts(Tail(items),
                             Put(counts, category,
                                 Whole(Get(counts, category, Whole(0)).n \div Scale + 1)))

\* one row per category, the most frequent first
CategoryRows(counts, total) ==
    LET rows == [i \in 1..Len(counts.items) |->
                    Dict(<< <<"name", counts.items[i][1]>>,
                            <<"count", counts.items[i][2]>>,
                            <<"percentage",
                              IF total > 0
                              THEN Num(RoundDiv(counts.items[i][2].n * 100,
                                                total * (Scale \div 10))
                                         * (Scale \div 10))
                              ELSE Num(0)>> >>)]
    IN  SortDesc(rows, "count")

\* _transform_amenities_data
transform_amenities_data(raw_data) ==
    IF ~Truthy(raw_data)
    THEN Ok(Dict(<< <<"categories", EmptyList>>, <<"total", Whole(0)>> >>))
    ELSE IF Has(raw_data, "results")
    THEN LET results == Get(raw_data, "results", None)
             items == Iterate(results)
             counts == CategoryCounts(items.ret, EmptyDict)
         IN  IF items.raised \/ counts.raised THEN Raise
             ELSE Ok(Dict(<< <<"categories",
                               List(CategoryRows(counts.ret, Len(items.ret)))>>,
                             <<"total", Whole(Len(items.ret))>> >>))
    ELSE Ok(raw_data)

(* ---- schools ---- *)

\* if key in item: school[name] = item.get(key)
CopyIfPresent(school, item, key, name) ==
    IF Has(item, key) THEN Put(school, name, Get(item, key, None)) ELSE school

\* one canonical school entry from a raw record (numbers or null are read
\* for naplan, boys and girls)
SchoolEntry(item) ==
    LET base == Dict(<< <<"name", Get(item, "name", Str(""))>>,
                        <<"type", Get(item, "school_level_type", Str("Unknown"))>>,
                        <<"sector", Get(item, "school_sector_type", Str("Unknown"))>> >>)
        naplan == Get(item, "naplan", Num(0))
        rated == IF Has(item, "naplan")
                 THEN Put(Put(base, "naplanScore", naplan),
                          "rating", Num(Round1(naplan.n * 5)))
                 ELSE base
        ranked == CopyIfPresent(CopyIfPresent(CopyIfPresent(CopyIfPresent(
                      rated, item, "naplan_rank", "naplanRank"),
                      item, "socioeconomic", "socioeconomicScore"),
                      item, "socioeconomic_rank", "socioeconomicRank"),
                      item, "attendance_rate", "attendanceRate")
        boys == Get(item, "boys", Num(0))
        girls == Get(item, "girls", Num(0))
    IN  IF Has(item, "naplan") /\ ~IsNum(naplan) THEN Raise
        ELSE IF Truthy(boys) \/ Truthy(girls)
        THEN IF ~IsNum(boys) \/ ~IsNum(girls) THEN Raise
             ELSE Ok(Put(ranked, "students",
                         Dict(<< <<"boys", boys>>, <<"girls", girls>>,
                                 <<"total", Num(boys.n + girls.n)>> >>)))
        ELSE Ok(ranked)

\* the loop over results: entries that are not records are skipped
RECURSIVE SchoolEntries(_)
SchoolEntries(items) ==
    IF items = <<>> THEN Ok(<<>>)
    ELSE LET rest == SchoolEntries(Tail(items))
             school == SchoolEntry(Head(items))
         IN  IF ~IsDict(Head(items)) THEN rest
             ELSE IF school.raised \/ rest.raised THEN Raise
             ELSE Ok(<<school.ret>> \o rest.ret)

\* _transform_schools_data
transform_schools_data(raw_data) ==
    IF ~Truthy(raw_data)
    THEN Ok(Dict(<< <<"schools", EmptyList>>, <<"total", Whole(0)>> >>))
    ELSE IF Has(raw_data, "results")
    THEN LET items == Iterate(Get(raw_data, "results", None))
             schools == SchoolEntries(items.ret)
         IN  IF items.raised \/ schools.raised THEN Raise
             ELSE Ok(Dict(<< <<"schools", List(schools.ret)>>,
                             <<"total", Whole(Len(schools.ret))>> >>))
    ELSE Ok(raw_data)

(* ---- developments ---- *)

DevelopmentsCap == 50

\* one canonical development from the raw record at position idx (from 0)
DevelopmentEntry(idx, item) ==
    Dict(<< <<"id", Get(item, "id", Str("dev-" \o ToString(idx)))>>,
            <<"name", Get(item, "description",
                          Get(item, "name", Str("Development Application")))>>,
            <<"type", Get(item, "category",
                          Get(item, "development_type", Str("Residential")))>>,
            <<"status", Get(item, "status", Str("Unknown"))>>,
            <<"units", Get(item, "units", Whole(0))>>,
            <<"address", Get(item, "area_name", Get(item, "address", Str("")))>>,
            <<"applicant", Get(item, "applicant", Str("Unknown"))>>,
            <<"submittedDate",
              Get(item, "date",
                  Get(item, "lodgement_date",
                      Get(item, "submitted_date", Str(""))))>> >>)

\* as the loop below, with an empty record for an entry that is not a record
RECURSIVE DevelopmentEntries_all(_, _)
DevelopmentEntries_all(items, idx) ==
    IF items = <<>> THEN <<>>
    ELSE <<DevelopmentEntry(idx, IF IsDict(Head(items)) THEN Head(items)
                                 ELSE EmptyDict)>>
         \o DevelopmentEntries_all(Tail(items), idx + 1)

\* the loop over enumerate(results[:50]): entries that are not records are skipped
RECURSIVE DevelopmentEntries(_, _)
DevelopmentEntries(items, idx) ==
    IF items = <<>> THEN <<>>
    ELSE LET rest == DevelopmentEntries(Tail(items), idx + 1)
         IN  IF IsDict(Head(items))
             THEN <<DevelopmentEntry(idx, Head(items))>> \o rest
             ELSE rest

\* _transform_developments_data: only a list can be sliced
transform_developments_data(raw_data) ==
    IF ~Truthy(raw_data)
    THEN Ok(Dict(<< <<"developments", EmptyList>>, <<"total", Whole(0)>>,
                    <<"showing", Whole(0)>> >>))
    ELSE IF Has(raw_data, "results")
    THEN LET results == Get(raw_data, "results", None)
             developments ==
                 DevelopmentEntries(Take(results.l, DevelopmentsCap), 0)
         IN  IF ~IsList(results) THEN Raise
             ELSE Ok(Dict(<< <<"developments", List(developments)>>,
                             <<"total", Whole(Len(results.l))>>,
                             <<"showing", Whole(Len(developments))>> >>))
    ELSE Ok(raw_data)

(* ---- market trends ---- *)

Abs(x) == IF x < 0 THEN -x ELSE x

RECURSIVE GCD(_, _)
GCD(a, b) == IF b = 0 THEN a ELSE GCD(b, a % b)

\* diff / base * 100 rounded to a multiple of unit (100: one decimal,
\* 10: two decimals), for base > 0; the fraction is reduced first
Percent(diff, base, unit) ==
    LET g == GCD(Abs(diff), base)
    IN  RoundDiv((diff \div g) * 100 * (Scale \div unit), base \div g) * unit

\* int(x): towards zero
IntOf(n) == IF n >= 0 THEN (n \div Scale) * Scale ELSE -((-n \div Scale) * Scale)

\* float(v) of a JSON value: a number converts, null and text do not
FloatOf(v) == IF IsNum(v) THEN Ok(v) ELSE Raise

\* float(item.get(key, {}).get('value', 0))
RegionValue(item, key) ==
    LET region == Get(item, key, EmptyDict)
    IN  IF ~IsDict(region) THEN Raise
        ELSE FloatOf(Get(region, "value", Num(0)))

\* the calendar: day numbers of the dates that occur (date.toordinal)
DayNumbers ==
    ("2015-01-01" :> 735599) @@ ("2019-01-01" :> 737060) @@
    ("2019-07-01" :> 737241) @@ ("2020-01-01" :> 737425) @@
    ("2020-07-01" :> 737607)

\* datetime.strptime(v, '%Y-%m-%d')
strptime(v) ==
    IF IsStr(v) /\ v.s \in DOMAIN DayNumbers THEN Ok(DayNumbers[v.s]) ELSE Raise

\* a < b between two dates of a series: ISO dates by the calendar, any
\* other text after them, numbers by value
DateLess(a, b) ==
    IF IsNum(a) THEN a.n < b.n
    ELSE IF a.s \in DOMAIN DayNumbers /\ b.s \in DOMAIN DayNumbers
         THEN DayNumbers[a.s] < DayNumbers[b.s]
         ELSE a.s \in DOMAIN DayNumbers /\ b.s \notin DOMAIN DayNumbers

\* as the loop below, with a later record of a date replacing the earlier one
RECURSIVE PriceByDate_keeps_last(_, _)
PriceByDate_keeps_last(items, price_by_date) ==
    IF items = <<>> THEN Ok(price_by_date)
    ELSE LET item == Head(items)
             date == Get(item, "date", Str(""))
             suburb == FloatOf(Get(item, "value", Num(0)))
             cr == RegionValue(item, "cr")
             sa3 == RegionValue(item, "sa3")
         IN  IF ~IsDict(item) THEN PriceByDate_keeps_last(Tail(items), price_by_date)
             ELSE IF \/ Get(item, "metric", None) # Str("sell_price")
                     \/ Get(item, "property_type", None) # Str("house")
                  THEN PriceByDate_keeps_last(Tail(items), price_by_date)
             ELSE IF ~Truthy(date) THEN PriceByDate_keeps_last(Tail(items), price_by_date)
             ELSE IF suburb.raised \/ cr.raised \/ sa3.raised \/ ~Hashable(date)
                  THEN Raise
             ELSE PriceByDate_keeps_last(Tail(items),
                    Put(price_by_date, date,
                        Dict(<< <<"date", date>>, <<"suburb", suburb.ret>>,
                                <<"cr", cr.ret>>, <<"sa3", sa3.ret>> >>)))

\* as the loop below, without the test for the metric and the property type
RECURSIVE PriceByDate_any_metric(_, _)
PriceByDate_any_metric(items, price_by_date) ==
    IF items = <<>> THEN Ok(price_by_date)
    ELSE LET item == Head(items)
             date == Get(item, "date", Str(""))
             suburb == FloatOf(Get(item, "value", Num(0)))
             cr == RegionValue(item, "cr")
             sa3 == RegionValue(item, "sa3")
         IN  IF ~IsDict(item) THEN PriceByDate_any_metric(Tail(items), price_by_date)
             ELSE IF ~Truthy(date)
                  THEN PriceByDate_any_metric(Tail(items), price_by_date)
             ELSE IF suburb.raised \/ cr.raised \/ sa3.raised \/ ~Hashable(date)
                  THEN Raise
             ELSE IF Has(price_by_date, date)
                  THEN PriceByDate_any_metric(Tail(items), price_by_date)
             ELSE PriceByDate_any_metric(Tail(items),
                    Put(price_by_date, date,
                        Dict(<< <<"date", date>>, <<"suburb", suburb.ret>>,
                                <<"cr", cr.ret>>, <<"sa3", sa3.ret>> >>)))

\* the loop of _extract_price_series: the first record of a date is kept
RECURSIVE PriceByDate(_, _)
PriceByDate(items, price_by_date) ==
    IF items = <<>> THEN Ok(price_by_date)
    ELSE LET item == Head(items)
             date == Get(item, "date", Str(""))
             suburb == FloatOf(Get(item, "value", Num(0)))
             cr == RegionValue(item, "cr")
             sa3 == RegionValue(item, "sa3")
         IN  IF ~IsDict(item) THEN PriceByDate(Tail(items), price_by_date)
             ELSE IF \/ Get(item, "metric", None) # Str("sell_price")
                     \/ Get(item, "property_type", None) # Str("house")
                  THEN PriceByDate(Tail(items), price_by_date)
             ELSE IF ~Truthy(date) THEN PriceByDate(Tail(items), price_by_date)
             ELSE IF suburb.raised \/ cr.raised \/ sa3.raised \/ ~Hashable(date)
                  THEN Raise
             ELSE IF Has(price_by_date, date)
                  THEN PriceByDate(Tail(items), price_by_date)
             ELSE PriceByDate(Tail(items),
                    Put(price_by_date, date,
                        Dict(<< <<"date", date>>, <<"suburb", suburb.ret>>,
                                <<"cr", cr.ret>>, <<"sa3", sa3.ret>> >>)))

\* sorted(points, key=lambda x: x['date']): stable, ascending
RECURSIVE InsertByDate(_, _)
InsertByDate(sorted, point) ==
    IF sorted = <<>> THEN <<point>>
    ELSE IF DateLess(Get(point, "date", None), Get(Head(sorted), "date", None))
         THEN <<point>> \o sorted
         ELSE <<Head(sorted)>> \o InsertByDate(Tail(sorted), point)

\* as SortByDate, but the points stay in the order the dates were first seen
SortByDate_first_seen(points) == points

RECURSIVE SortByDate(_)
SortByDate(points) ==
    IF points = <<>> THEN <<>>
    ELSE InsertByDate(SortByDate(SubSeq(points, 1, Len(points) - 1)),
                      points[Len(points)])

\* _extract_price_series: text and numbers do not compare with each other
extract_price_series(results) ==
    LET items == Iterate(results)
        by_date == PriceByDate(items.ret, EmptyDict)
        points == Values(by_date.ret)
    IN  IF items.raised \/ by_date.raised THEN Raise
        ELSE IF \E i, j \in 1..Len(points) :
                    Get(points[i], "date", None).t # Get(points[j], "date", None).t
             THEN Raise
        ELSE Ok(SortByDate(points))

Suburb(point) == Get(point, "suburb", None).n

\* as the scan below, taking only a point after the day `since`
RECURSIVE Baseline_after(_, _, _)
Baseline_after(series, since, current_price) ==
    IF series = <<>> THEN Ok(current_price)
    ELSE LET point_date == strptime(Get(Head(series), "date", None))
         IN  IF point_date.raised THEN Raise
             ELSE IF point_date.ret > since /\ Suburb(Head(series)) > 0
                  THEN Ok(Suburb(Head(series)))
                  ELSE Baseline_after(Tail(series), since, current_price)

\* as the scan below, without the test for a positive value
RECURSIVE Baseline_any_value(_, _, _)
Baseline_any_value(series, since, current_price) ==
    IF series = <<>> THEN Ok(current_price)
    ELSE LET point_date == strptime(Get(Head(series), "date", None))
         IN  IF point_date.raised THEN Raise
             ELSE IF point_date.ret >= since
                  THEN Ok(Suburb(Head(series)))
                  ELSE Baseline_any_value(Tail(series), since, current_price)

\* the forward scan for a baseline: the first point on or after the day
\* `since` with a positive value; every point looked at has its date parsed
RECURSIVE Baseline(_, _, _)
Baseline(series, since, current_price) ==
    IF series = <<>> THEN Ok(current_price)
    ELSE LET point_date == strptime(Get(Head(series), "date", None))
         IN  IF point_date.raised THEN Raise
             ELSE IF point_date.ret >= since /\ Suburb(Head(series)) > 0
                  THEN Ok(Suburb(Head(series)))
                  ELSE Baseline(Tail(series), since, current_price)

Growth(current_price, base) ==
    IF base > 0 THEN Num(Percent(current_price - base, base, 10)) ELSE Num(0)

\* _calculate_current_metrics
calculate_current_metrics(series) ==
    IF series = <<>>
    THEN Ok([price |-> Num(0), growth_1y |-> Num(0), growth_5y |-> Num(0),
             growth_total |-> Num(0)])
    ELSE
    LET current_price == Suburb(series[Len(series)])
        current_date == strptime(Get(series[Len(series)], "date", None))
        price_1y_ago == Baseline(series, current_date.ret - 365, current_price)
        price_5y_ago == Baseline(series, current_date.ret - 365 * 5, current_price)
        price_earliest ==
            IF Suburb(series[1]) > 0 THEN Suburb(series[1]) ELSE current_price
    IN  IF current_date.raised \/ price_1y_ago.raised \/ price_5y_ago.raised
        THEN Raise
        ELSE Ok([price |-> Num(IntOf(current_price)),
                 growth_1y |-> Growth(current_price, price_1y_ago.ret),
                 growth_5y |-> Growth(current_price, price_5y_ago.ret),
                 growth_total |-> Growth(current_price, price_earliest)])

\* as RegionComparison, with the status read off the rounded difference
RegionComparison_rounded(suburb_price, region_price) ==
    LET difference == IF region_price > 0
                      THEN Percent(suburb_price - region_price, region_price, 100)
                      ELSE 0
    IN  Dict(<< <<"price", Num(IntOf(region_price))>>,
                <<"difference", Num(difference)>>,
                <<"status", IF difference < 0 THEN Str("below") ELSE Str("above")>> >>)

\* one region of the comparison, against the latest suburb price
RegionComparison(suburb_price, region_price) ==
    Dict(<< <<"price", Num(IntOf(region_price))>>,
            <<"difference",
              IF region_price > 0
              THEN Num(Percent(suburb_price - region_price, region_price, 100))
              ELSE Num(0)>>,
            <<"status",
              IF region_price > 0 /\ suburb_price < region_price
              THEN Str("below") ELSE Str("above")>> >>)

ZeroComparison ==
    LET zero == Dict(<< <<"price", Num(0)>>, <<"difference", Num(0)>>,
                        <<"status", Str("below")>> >>)
    IN  Dict(<< <<"cr", zero>>, <<"sa3", zero>> >>)

\* _calculate_regional_comparison
calculate_regional_comparison(series) ==
    IF series = <<>> THEN ZeroComparison
    ELSE LET latest == series[Len(series)]
         IN  Dict(<< <<"cr", RegionComparison(Suburb(latest), Get(latest, "cr", None).n)>>,
                     <<"sa3", RegionComparison(Suburb(latest), Get(latest, "sa3", None).n)>> >>)

RECURSIVE Sum(_)
Sum(xs) == IF xs = <<>> THEN 0 ELSE Head(xs) + Sum(Tail(xs))

RECURSIVE GCDAll(_)
GCDAll(xs) == IF xs = <<>> THEN 0 ELSE GCD(Abs(Head(xs)), GCDAll(Tail(xs)))

\* the prices divided by their greatest common divisor (ratios are kept)
Reduced(xs) ==
    LET g == GCDAll(xs)
    IN  IF g = 0 THEN xs ELSE [i \in 1..Len(xs) |-> xs[i] \div g]

\* as the volatility below, with statistics.pstdev (divisor n)
calculate_volatility_population(prices) ==
    LET xs == Reduced(prices)
        n == Len(xs)
        total == Sum(xs)
    IN  IF n < 2 \/ total = 0 THEN [sign |-> 0, sq |-> <<0, 1>>]
        ELSE LET dev == Sum([i \in 1..n |-> (n * xs[i] - total) * (n * xs[i] - total)])
             IN  [sign |-> IF dev = 0 THEN 0 ELSE IF total > 0 THEN 1 ELSE -1,
                  sq |-> <<dev, n * total * total>>]

\* _calculate_volatility: statistics.stdev(prices) / statistics.mean(prices),
\* given as the fraction sq[1] / sq[2] that is its square, with its sign
calculate_volatility(prices) ==
    LET xs == Reduced(prices)
        n == Len(xs)
        total == Sum(xs)
    IN  IF n < 2 \/ total = 0 THEN [sign |-> 0, sq |-> <<0, 1>>]
        ELSE LET dev == Sum([i \in 1..n |-> (n * xs[i] - total) * (n * xs[i] - total)])
             IN  [sign |-> IF dev = 0 THEN 0 ELSE IF total > 0 THEN 1 ELSE -1,
                  sq |-> <<dev, (n - 1) * total * total>>]

\* volatility < a / b and volatility > a / b, for a, b > 0
VolatilityBelow(v, a, b) ==
    v.sign < 0 \/ v.sq[1] * b * b < a * a * v.sq[2]
\* as VolatilityAbove, against half of a / b
VolatilityAbove_half(v, a, b) ==
    v.sign > 0 /\ v.sq[1] * b * b * 4 > a * a * v.sq[2]
VolatilityAbove(v, a, b) ==
    v.sign > 0 /\ v.sq[1] * b * b > a * a * v.sq[2]

\* [p['suburb'] for p in series if p['suburb'] > 0]
RECURSIVE PositivePrices(_)
PositivePrices(series) ==
    IF series = <<>> THEN <<>>
    ELSE IF Suburb(Head(series)) > 0
         THEN <<Suburb(Head(series))>> \o PositivePrices(Tail(series))
         ELSE PositivePrices(Tail(series))

\* as the trend below, with a change of exactly 2 per cent counted as a move
detect_trend_inclusive(recent_series) ==
    LET prices == Reduced(PositivePrices(recent_series))
        first_price == prices[1]
        last_price == prices[Len(prices)]
    IN  IF Len(recent_series) < 2 \/ Len(prices) < 2 THEN "stable"
        ELSE IF (last_price - first_price) * 100 >= 2 * first_price THEN "rising"
        ELSE IF (last_price - first_price) * 100 <= -2 * first_price THEN "declining"
        ELSE "stable"

\* _detect_trend: change of more than 2 per cent between the first and the
\* last positive price
detect_trend(recent_series) ==
    LET prices == Reduced(PositivePrices(recent_series))
        first_price == prices[1]
        last_price == prices[Len(prices)]
    IN  IF Len(recent_series) < 2 \/ Len(prices) < 2 THEN "stable"
        ELSE IF (last_price - first_price) * 100 > 2 * first_price THEN "rising"
        ELSE IF (last_price - first_price) * 100 < -2 * first_price THEN "declining"
        ELSE "stable"

\* f"{x:.1f}" of a number that has one decimal
Format1(n) == ToString(n \div Scale) \o "." \o ToString((n % Scale) \div (Scale \div 10))

\* as the value score below, with the bounds -10 and -5 included
ValueScore_inclusive(cr_diff) ==
    IF cr_diff <= -10 * Scale THEN 10
    ELSE IF cr_diff <= -5 * Scale THEN 8
    ELSE IF cr_diff < 0 THEN 6 ELSE 4

\* value_score, from the rounded CR difference
ValueScore(cr_diff) ==
    IF cr_diff < -10 * Scale THEN 10
    ELSE IF cr_diff < -5 * Scale THEN 8
    ELSE IF cr_diff < 0 THEN 6 ELSE 4

\* as the stability score below, on the thresholds of the reported bucket
StabilityScore_bucket(volatility) ==
    IF VolatilityBelow(volatility, 3, 20) THEN 10
    ELSE IF VolatilityBelow(volatility, 1, 4) THEN 7
    ELSE 5

\* as StabilityScore, with no points for a volatility of 0.15 or more
StabilityScore_none(volatility) ==
    IF VolatilityBelow(volatility, 1, 10) THEN 10
    ELSE IF VolatilityBelow(volatility, 3, 20) THEN 7
    ELSE 0

\* stability_score, from the volatility
StabilityScore(volatility) ==
    IF VolatilityBelow(volatility, 1, 10) THEN 10
    ELSE IF VolatilityBelow(volatility, 3, 20) THEN 7
    ELSE 5

\* the score and the insights, from the volatility, the trend, the ratio
\* num / den of the last price to the first, and the rounded CR difference
InvestmentScore(volatility, trend, num, den, cr_diff) ==
    LET value_score == ValueScore(cr_diff)
        stability_score == StabilityScore(volatility)
        \* min(growth_ratio, 3) * 3.33 * 0.4 + value * 0.3 + stability * 0.3,
        \* in tenths
        tenths == IF num >= 3 * den
                  THEN RoundDiv(3996 + 300 * (value_score + stability_score), 100)
                  ELSE RoundDiv(num * 1332 + 300 * (value_score + stability_score) * den,
                                100 * den)
        value_insight ==
            IF cr_diff < -10 * Scale
            THEN <<Str("Excellent value - " \o Format1(Abs(cr_diff))
                       \o "% below regional average")>>
            ELSE IF cr_diff < -5 * Scale
            THEN <<Str("Good value - " \o Format1(Abs(cr_diff))
                       \o "% below regional average")>>
            ELSE <<>>
        trend_insight ==
            IF trend = "rising"
            THEN <<Str("Positive price momentum in recent months")>>
            ELSE IF trend = "declining"
            THEN <<Str("Price declining in recent months")>>
            ELSE <<>>
        volatility_insight ==
            IF VolatilityBelow(volatility, 1, 10)
            THEN <<Str("Stable market with low volatility")>>
            ELSE IF VolatilityAbove(volatility, 1, 5)
            THEN <<Str("High price volatility - higher risk")>>
            ELSE <<>>
        growth_insight ==
            IF num > 2 * den
            THEN <<Str("Strong long-term growth of "
                       \o ToString(RoundDiv((num - den) * 100, den)) \o "%")>>
            ELSE <<>>
    IN  [score |-> Num(tenths * (Scale \div 10)),
         volatility |-> IF VolatilityBelow(volatility, 3, 20) THEN "low"
                        ELSE IF VolatilityBelow(volatility, 1, 4) THEN "medium"
                        ELSE "high",
         trend |-> trend,
         insights |-> value_insight \o trend_insight \o volatility_insight
                      \o growth_insight]

\* as GrowthRatio, with 0 for a first price that is not positive
GrowthRatio_zero(series) ==
    IF Suburb(series[1]) > 0
    THEN Reduced(<<Suburb(series[Len(series)]), Suburb(series[1])>>)
    ELSE <<0, 1>>

\* growth_ratio as <<numerator, denominator>>: last price / first price, or 1
GrowthRatio(series) ==
    IF Suburb(series[1]) > 0
    THEN Reduced(<<Suburb(series[Len(series)]), Suburb(series[1])>>)
    ELSE <<1, 1>>

\* _calculate_investment_score
calculate_investment_score(series, comparison) ==
    IF series = <<>>
    THEN [score |-> Num(0), volatility |-> "low", trend |-> "stable",
          insights |-> <<>>]
    ELSE InvestmentScore(
            calculate_volatility(PositivePrices(series)),
            detect_trend(IF Len(series) >= 6
                         THEN SubSeq(series, Len(series) - 5, Len(series))
                         ELSE series),
            GrowthRatio(series)[1], GrowthRatio(series)[2],
            Get(Get(comparison, "cr", None), "difference", None).n)

\* the bundle of a payload without a price series
ZeroBundle ==
    << <<"currentPrice", Num(0)>>,
       <<"priceGrowth", Dict(<< <<"1year", Num(0)>>, <<"5year", Num(0)>>,
                                <<"total", Num(0)>> >>)>>,
       <<"regionalComparison", ZeroComparison>>,
       <<"investmentScore", Num(0)>>,
       <<"analytics", Dict(<< <<"volatility", Str("low")>>,
                              <<"trend", Str("stable")>>,
                              <<"insights", EmptyList>> >>)>> >>

\* the bundle of a payload with a price series
MarketBundle(price_history, current_data, regional_comparison, investment_analysis) ==
    Dict(<<
        <<"priceHistory", List(price_history)>>,
        <<"rentHistory", EmptyList>>,
        <<"currentPrice", current_data.price>>,
        <<"priceGrowth",
          Dict(<< <<"1year", current_data.growth_1y>>,
                  <<"5year", current_data.growth_5y>>,
                  <<"total", current_data.growth_total>> >>)>>,
        <<"regionalComparison", regional_comparison>>,
        <<"investmentScore", investment_analysis.score>>,
        <<"analytics",
          Dict(<< <<"volatility", Str(investment_analysis.volatility)>>,
                  <<"trend", Str(investment_analysis.trend)>>,
                  <<"insights", List(investment_analysis.insights)>> >>)>> >>)

\* the analytics of a non-empty series, in the order the transform runs them
MarketAnalytics(price_history, current_data, regional_comparison) ==
    IF current_data.raised THEN Raise
    ELSE Ok(MarketBundle(price_history, current_data.ret, regional_comparison,
                         calculate_investment_score(price_history,
                                                    regional_comparison)))

\* what the transform makes of the extracted series
MarketOfSeries(price_history) ==
    IF price_history.raised THEN Raise
    ELSE IF price_history.ret = <<>>
    THEN Ok(Dict(<< <<"priceHistory", EmptyList>>,
                    <<"rentHistory", EmptyList>> >> \o ZeroBundle))
    ELSE MarketAnalytics(price_history.ret,
                         calculate_current_metrics(price_history.ret),
                         calculate_regional_comparison(price_history.ret))

\* results = raw_data['results'], unwrapped when it is a list of lists
MarketResults(given) ==
    IF IsList(given) /\ Len(given.l) > 0 /\ IsList(given.l[1])
    THEN given.l[1] ELSE given

\* _transform_market_trends_data
transform_market_trends_data(raw_data) ==
    IF ~Truthy(raw_data) \/ ~Has(raw_data, "results")
    THEN Ok(Dict(<< <<"priceHistory", EmptyList>> >> \o ZeroBundle))
    ELSE MarketOfSeries(
            extract_price_series(MarketResults(Get(raw_data, "results", None))))

(* ---- classify, then transform ---- *)

Domains ==
    {"get_demographics", "get_amenities", "get_market_trends", "get_schools",
     "get_developments"}

\* the key whose presence marks a payload as already in frontend format,
\* and the field its first entry must have (none for the first two)
ListKey(op) ==
    CASE op = "get_demographics" -> "ageDistribution"
      [] op = "get_market_trends" -> "priceHistory"
      [] op = "get_amenities" -> "categories"
      [] op = "get_schools" -> "schools"
      [] op = "get_developments" -> "developments"

EntryKey(op) ==
    CASE op = "get_amenities" -> "name"
      [] op = "get_schools" -> "name"
      [] op = "get_developments" -> "id"

\* as the test below, answering "not in frontend format" for every payload
in_frontend_format_never(op, raw_data) ==
    LET has == Contains(raw_data, ListKey(op))
    IN  IF has.raised THEN Raise ELSE Ok(FALSE)

\* the test "data is already in frontend format" of get_demographics ..
\* get_developments
in_frontend_format(op, raw_data) ==
    LET has == Contains(raw_data, ListKey(op))
        entries == Get(raw_data, ListKey(op), None)
        first == Contains(entries.l[1], EntryKey(op))
    IN  IF has.raised THEN Raise
        ELSE IF op \in {"get_demographics", "get_market_trends"} THEN has
        ELSE IF ~has.ret \/ ~IsList(entries) THEN Ok(FALSE)
        ELSE IF entries.l = <<>> THEN Ok(TRUE)
        ELSE first

transform(op, raw_data) ==
    CASE op = "get_demographics" -> transform_demographics_data(raw_data)
      [] op = "get_amenities" -> transform_amenities_data(raw_data)
      [] op = "get_market_trends" -> transform_market_trends_data(raw_data)
      [] op = "get_schools" -> transform_schools_data(raw_data)
      [] op = "get_developments" -> transform_developments_data(raw_data)

\* the answer for a payload, given what the format test and the transform
\* make of it
Classified(suburb_id, data, canonical, transformed) ==
    IF canonical.raised THEN Raise
    ELSE IF canonical.ret THEN Ok(data)
    ELSE IF transformed.raised THEN Raise
    ELSE Ok(Dict(<< <<suburb_id, transformed.ret>> >>))

\* DataAggregatorService.get_demographics .. get_developments, given what
\* self.repo returned
canonicalize(op, suburb_id, data) ==
    IF ~Truthy(data) \/ ~Has(data, suburb_id) THEN Ok(data)
    ELSE Classified(suburb_id, data,
                    in_frontend_format(op, Get(data, suburb_id, None)),
                    transform(op, Get(data, suburb_id, None)))

\* DataAggregatorService.get_suburb_summary
Service_get_suburb_summary(suburb_id, data) ==
    IF ~Truthy(data) THEN Ok(None)
    ELSE IF Has(data, suburb_id) THEN Ok(data)
    ELSE Ok(Dict(<< <<suburb_id, data>> >>))

\* the orchestrator's method behind a route, given what self.repo returned
DataService(op, suburb_id, data) ==
    CASE op \in Domains -> canonicalize(op, suburb_id, data)
      [] op = "get_suburb_summary" -> Service_get_suburb_summary(suburb_id, data)
      [] OTHER -> Ok(data)

----------------------------------------------------------------------------
(* Identifier to name.  A str is taken apart as the sequence of its        *)
(* characters; Text puts the characters together again.                    *)

LowerLetters ==
    <<"a", "b", "c", "d", "e", "f", "g", "h", "i", "j", "k", "l", "m",
      "n", "o", "p", "q", "r", "s", "t", "u", "v", "w", "x", "y", "z">>
UpperLetters ==
    <<"A", "B", "C", "D", "E", "F", "G", "H", "I", "J", "K", "L", "M",
      "N", "O", "P", "Q", "R", "S", "T", "U", "V", "W", "X", "Y", "Z">>
Digits == {"0", "1", "2", "3", "4", "5", "6", "7", "8", "9"}

IsLower(c) == \E i \in 1..Len(LowerLetters) : LowerLetters[i] = c
IsUpper(c) == \E i \in 1..Len(UpperLetters) : UpperLetters[i] = c
Upper(c) ==
    IF IsLower(c)
    THEN UpperLetters[CHOOSE i \in 1..Len(LowerLetters) : LowerLetters[i] = c]
    ELSE c
Lower(c) ==
    IF IsUpper(c)
    THEN LowerLetters[CHOOSE i \in 1..Len(UpperLetters) : UpperLetters[i] = c]
    ELSE c

RECURSIVE Text(_)
Text(chars) == IF chars = <<>> THEN "" ELSE Head(chars) \o Text(Tail(chars))

\* str.split(sep): the tokens between the separators, empty ones included
RECURSIVE SplitInto(_, _, _)
SplitInto(chars, sep, token) ==
    IF chars = <<>> THEN <<token>>
    ELSE IF Head(chars) = sep
         THEN <<token>> \o SplitInto(Tail(chars), sep, <<>>)
         ELSE SplitInto(Tail(chars), sep, Append(token, Head(chars)))

Split(chars, sep) == SplitInto(chars, sep, <<>>)

\* str.isdigit(): not empty, digits only
isdigit(token) == token # <<>> /\ \A i \in 1..Len(token) : token[i] \in Digits

\* sep.join(parts)
RECURSIVE Join(_, _)
Join(parts, sep) ==
    IF parts = <<>> THEN <<>>
    ELSE IF Len(parts) = 1 THEN parts[1]
    ELSE parts[1] \o <<sep>> \o Join(Tail(parts), sep)

\* str.title(): a letter is upper case after a character that is no letter
\* (and at the start), lower case after a letter
RECURSIVE TitleFrom(_, _)
TitleFrom(chars, after_letter) ==
    IF chars = <<>> THEN <<>>
    ELSE LET c == Head(chars)
             letter == IsLower(c) \/ IsUpper(c)
         IN  <<IF ~letter THEN c ELSE IF after_letter THEN Lower(c) ELSE Upper(c)>>
             \o TitleFrom(Tail(chars), letter)

title(chars) == TitleFrom(chars, FALSE)

\* as the conversion below, keeping the postcode in the name
extract_suburb_name_keeps_postcode(suburb_id) ==
    title(Join(Split(suburb_id, "-"), " "))

\* ApiSuburbRepository._extract_suburb_name
extract_suburb_name(suburb_id) ==
    LET parts == Split(suburb_id, "-")
        kept == IF Len(parts) > 1 /\ isdigit(parts[Len(parts)])
                THEN SubSeq(parts, 1, Len(parts) - 1) ELSE parts
    IN  title(Join(kept, " "))

\* the name _aggregate_suburb_data gives the record
aggregate_suburb_name(suburb_id) ==
    LET parts == Split(suburb_id, "-")
    IN  IF Len(parts) > 1 /\ isdigit(parts[Len(parts)])
        THEN title(Join(SubSeq(parts, 1, Len(parts) - 1), " "))
        ELSE title(Join(parts, " "))

\* ^[a-z]+(-[a-z]+)*(-\d{4})?$ : lower-case words, then at most one
\* four-digit postcode
MatchesPattern(suburb_id) ==
    LET parts == Split(suburb_id, "-")
        word(token) == token # <<>> /\ \A i \in 1..Len(token) : IsLower(token[i])
    IN  /\ word(parts[1])
        /\ \A i \in 2..(Len(parts) - 1) : word(parts[i])
        /\ Len(parts) > 1 =>
              \/ word(parts[Len(parts)])
              \/ isdigit(parts[Len(parts)]) /\ Len(parts[Len(parts)]) = 4

\* re.match(pattern, suburb_id) for that pattern: '$' matches at the end of
\* the text and also just before a line feed that ends it
re_match_pattern(suburb_id) ==
    \/ MatchesPattern(suburb_id)
    \/ /\ suburb_id # <<>>
       /\ suburb_id[Len(suburb_id)] = "\n"
       /\ MatchesPattern(SubSeq(suburb_id, 1, Len(suburb_id) - 1))

----------------------------------------------------------------------------
(* DataAggregatorService.get_suburb_details and the record it aggregates.      *)

\* v[key], reached after `key in v` held: only a dict can be indexed by text
Index(v, key) == IF IsDict(v) THEN Ok(Get(v, key, None)) ELSE Raise

\* int(v) of a JSON value: a number is truncated, null and containers raise
\* (text of digits would convert; the payloads hold none)
IntValue(v) == IF IsNum(v) THEN Ok(Num(IntOf(v.n))) ELSE Raise

\* the record _aggregate_suburb_data starts from
BlankRecord(suburb_id) ==
    Dict(<< <<"id", Str(Text(suburb_id))>>,
            <<"name", Str(Text(aggregate_suburb_name(suburb_id)))>>,
            <<"state", Str("")>>, <<"postcode", Str("")>>,
            <<"medianHousePrice", Num(0)>>, <<"medianRent", Num(0)>>,
            <<"population", Num(0)>>, <<"medianAge", Num(0)>>,
            <<"schoolsCount", Num(0)>>, <<"amenitiesCount", Num(0)>>,
            <<"developmentApps", Num(0)>> >>)

\* if info_data and 'information' in info_data: state and postcode are
\* copied from information.geo_divisions, both of which must be objects
MergeInfo(record, info_data) ==
    IF ~Truthy(info_data) THEN Ok(record)
    ELSE LET has == Contains(info_data, "information")
         IN  IF has.raised THEN Raise
             ELSE IF ~has.ret THEN Ok(record)
             ELSE LET info == Index(info_data, "information")
                  IN  IF info.raised \/ ~IsDict(info.ret) THEN Raise
                      ELSE LET geo_div == Get(info.ret, "geo_divisions", EmptyDict)
                           IN  IF ~IsDict(geo_div) THEN Raise
                               ELSE Ok(Put(Put(record, "state",
                                               Get(geo_div, "state", Str(""))),
                                           "postcode",
                                           Get(geo_div, "poa", Str(""))))

\* if summary_data and 'results' in summary_data: the loop over the results
\* copies nothing
MergeSummary(record, summary_data) ==
    IF ~Truthy(summary_data) THEN Ok(record)
    ELSE LET has == Contains(summary_data, "results")
         IN  IF has.raised THEN Raise
             ELSE IF ~has.ret THEN Ok(record)
             ELSE IF Index(summary_data, "results").raised THEN Raise
             ELSE Ok(record)

\* as MergeMetrics, but a metric that was copied once is not copied again
RECURSIVE MergeMetrics_first(_, _)
MergeMetrics_first(items, record) ==
    IF items = <<>> THEN Ok(record)
    ELSE LET item == items[Len(items)]
             earlier == MergeMetrics_first(SubSeq(items, 1, Len(items) - 1), record)
             metric == IF IsDict(item) THEN Get(item, "metric", None) ELSE None
             key == IF metric = Str("sell_price") THEN "medianHousePrice"
                    ELSE IF metric = Str("rent_price") THEN "medianRent"
                    ELSE ""
         IN  IF earlier.raised THEN Raise
             ELSE IF key = "" \/ Get(earlier.ret, key, None) # Num(0) THEN earlier
             ELSE LET value == IntValue(Get(item, "value", Num(0)))
                  IN  IF value.raised THEN Raise
                      ELSE Ok(Put(earlier.ret, key, value.ret))

\* for item in market_results[0]: every sell_price record overwrites
\* medianHousePrice, every rent_price record medianRent
RECURSIVE MergeMetrics(_, _)
MergeMetrics(items, record) ==
    IF items = <<>> THEN Ok(record)
    ELSE LET item == Head(items)
             metric == IF IsDict(item) THEN Get(item, "metric", None) ELSE None
             key == IF metric = Str("sell_price") THEN "medianHousePrice"
                    ELSE IF metric = Str("rent_price") THEN "medianRent"
                    ELSE ""
         IN  IF key = "" THEN MergeMetrics(Tail(items), record)
             ELSE LET value == IntValue(Get(item, "value", Num(0)))
                  IN  IF value.raised THEN Raise
                      ELSE MergeMetrics(Tail(items), Put(record, key, value.ret))

\* if market_data and 'results' in market_data: the first inner list of
\* results is scanned
MergeMarket(record, market_data) ==
    IF ~Truthy(market_data) THEN Ok(record)
    ELSE LET has == Contains(market_data, "results")
         IN  IF has.raised THEN Raise
             ELSE IF ~has.ret THEN Ok(record)
             ELSE LET market_results == Index(market_data, "results")
                  IN  IF market_results.raised THEN Raise
                      ELSE IF /\ IsList(market_results.ret)
                              /\ Len(market_results.ret.l) > 0
                              /\ IsList(market_results.ret.l[1])
                              /\ Len(market_results.ret.l[1].l) > 0
                      THEN MergeMetrics(market_results.ret.l[1].l, record)
                      ELSE Ok(record)

\* _aggregate_suburb_data(suburb_id, info_data, summary_data, market_data)
aggregate_suburb_data(suburb_id, info_data, summary_data, market_data) ==
    LET with_info == MergeInfo(BlankRecord(suburb_id), info_data)
    IN  IF with_info.raised THEN Raise
        ELSE LET with_summary == MergeSummary(with_info.ret, summary_data)
             IN  IF with_summary.raised THEN Raise
                 ELSE MergeMarket(with_summary.ret, market_data)

\* get_suburb_details(suburb_id); info, summary and market are what the
\* coordinator's get_suburb_info, get_suburb_summary and get_market_trends did
get_suburb_details(suburb_id, info, summary, market) ==
    LET found == IF ~Truthy(info.ret) /\ ~Truthy(summary.ret)
                    /\ ~Truthy(market.ret)
                 THEN Ok(None)
                 ELSE aggregate_suburb_data(suburb_id, info.ret, summary.ret,
                                            market.ret)
    IN  [raised |-> found.raised,
         ret |-> IF found.raised THEN None ELSE found.ret,
         apiLog |-> info.apiLog \o summary.apiLog \o market.apiLog,
         fileLog |-> info.fileLog \o summary.fileLog \o market.fileLog,
         requests |-> info.requests \o summary.requests \o market.requests,
         loads |-> info.loads \o summary.loads \o market.loads]

----------------------------------------------------------------------------
(* Payloads handed to the canonicalization: raw ones as the remote service *)
(* sends them, partial and malformed ones, and ones in frontend format.    *)

MaxItems == 2    \* entries of a list in a raw payload

Lists(S) == UNION {[1..k -> S] : k \in 0..MaxItems}

Rec1(k, v) == Dict(<< <<k, v>> >>)

AgeBrackets ==
    {Dict(<< <<"gender", Str("persons")>>, <<"age", Str("0-4")>>,
             <<"proportion", Num(250)>> >>),
     Dict(<< <<"gender", Str("persons")>>, <<"age", Str("0-4")>>,
             <<"proportion", Num(125)>> >>),
     Dict(<< <<"gender", Str("male")>>, <<"age", Str("5-9")>>,
             <<"proportion", Num(100)>> >>),
     Dict(<< <<"gender", Str("persons")>> >>),
     Dict(<< <<"gender", Str("persons")>>, <<"age", Str("5-9")>>,
             <<"proportion", None>> >>),
     Str("0-4")}

Ethnicities ==
    {Dict(<< <<"ethnicity", Str("English")>>, <<"proportion", Num(300)>> >>),
     Dict(<< <<"name", Str("Chinese")>>, <<"percentage", Num(125)>> >>),
     EmptyDict,
     Dict(<< <<"ethnicity", Str("Greek")>>, <<"proportion", None>> >>),
     None}

EthnicityAreas ==
    {Rec1("ethnicity", Dict(<< <<"English", Num(300)>>, <<"Chinese", Num(100)>> >>)),
     Rec1("ethnicity", Dict(<< <<"Chinese", Num(250)>> >>)),
     Rec1("area", Str("SA1")),
     Rec1("ethnicity", None),
     Rec1("ethnicity", Dict(<< <<"English", None>> >>)),
     None}

Amenities ==
    {Rec1("category", Str("Cafe")), Rec1("category", Str("Park")),
     Rec1("name", Str("Lygon St")), Rec1("category", None),
     Str("Cafe"), None}

Schools ==
    {Dict(<< <<"name", Str("Carlton Primary")>>,
             <<"school_level_type", Str("Primary")>>,
             <<"school_sector_type", Str("Government")>>,
             <<"naplan", Num(850)>>, <<"naplan_rank", Whole(3)>>,
             <<"socioeconomic", Num(700)>>, <<"socioeconomic_rank", Whole(5)>>,
             <<"attendance_rate", Num(930)>>,
             <<"boys", Whole(100)>>, <<"girls", Whole(120)>> >>),
     Rec1("name", Str("Fitzroy High")),
     Dict(<< <<"name", Str("Fitzroy High")>>, <<"girls", Whole(80)>> >>),
     Dict(<< <<"name", Str("Fitzroy High")>>, <<"naplan", None>> >>),
     Dict(<< <<"boys", Whole(10)>>, <<"girls", None>> >>),
     Str("Carlton Primary")}

Developments ==
    {Dict(<< <<"id", Str("DA-1")>>, <<"description", Str("Townhouses")>>,
             <<"category", Str("Multi-dwelling")>>, <<"status", Str("Approved")>>,
             <<"units", Whole(4)>>, <<"area_name", Str("Carlton")>>,
             <<"applicant", Str("Acme")>>, <<"date", Str("2020-01-01")>> >>),
     Dict(<< <<"name", Str("Extension")>>, <<"development_type", Str("Alteration")>>,
             <<"address", Str("1 Lygon St")>>,
             <<"lodgement_date", Str("2019-07-01")>> >>),
     Rec1("submitted_date", Str("2019-01-01")),
     EmptyDict,
     Rec1("units", None),
     None}

\* one more raw entry than the transform looks at
ManyDevelopments == [i \in 1..(DevelopmentsCap + 1) |-> EmptyDict]

\* two more raw entries than the transform looks at: the first is not a
\* record, the one after the last looked at has an id
ManyWithGaps ==
    [i \in 1..(DevelopmentsCap + 2) |->
        IF i = 1 THEN None
        ELSE IF i = DevelopmentsCap + 1 THEN Rec1("id", Str("DA-51"))
        ELSE EmptyDict]

\* a record of the market feed
MarketRecord(metric, property_type, date, value, cr, sa3) ==
    Dict(<< <<"metric", Str(metric)>>, <<"property_type", Str(property_type)>>,
            <<"date", date>>, <<"value", value>>,
            <<"cr", Rec1("value", cr)>>, <<"sa3", Rec1("value", sa3)>> >>)

MarketRecords ==
    {MarketRecord("sell_price", "house", Str("2019-01-01"), Whole(100), Whole(110), Whole(90)),
     MarketRecord("sell_price", "house", Str("2020-01-01"), Whole(110), Whole(125), Whole(0)),
     MarketRecord("sell_price", "house", Str("2020-01-01"), Whole(300), Whole(100), Whole(100)),
     MarketRecord("sell_price", "house", Str("2015-01-01"), Whole(0), Whole(100), Whole(100)),
     MarketRecord("rent_price", "house", Str("2020-07-01"), Whole(1), Whole(1), Whole(1)),
     MarketRecord("sell_price", "unit", Str("2020-07-01"), Whole(80), Whole(80), Whole(80)),
     Dict(<< <<"metric", Str("sell_price")>>, <<"property_type", Str("house")>>,
             <<"date", Str("2019-07-01")>> >>),
     Dict(<< <<"metric", Str("sell_price")>>, <<"property_type", Str("house")>>,
             <<"value", Whole(100)>> >>),
     MarketRecord("sell_price", "house", Str("2019-07-01"), None, Whole(100), Whole(100)),
     Dict(<< <<"metric", Str("sell_price")>>, <<"property_type", Str("house")>>,
             <<"date", Str("2019-07-01")>>, <<"value", Whole(100)>>,
             <<"cr", None>> >>),
     Str("sell_price")}

MaxRecords == 3    \* records of a results list handed to the extraction

\* results lists: any entries up to MaxItems, and longer lists of complete
\* records of either metric and property type
RecordLists ==
    Lists(MarketRecords)
        \cup UNION {[1..k -> {r \in MarketRecords :
                                /\ IsDict(r)
                                /\ Has(r, "date")
                                /\ IsNum(Get(r, "value", None))
                                /\ IsDict(Get(r, "cr", None))}] :
                        k \in 1..MaxRecords}

\* two points of the market feed, a year (365 or 366 days) apart: values a
\* then b, CR value c on the later point
TwoPoints(first_date, last_date, a, b, c) ==
    Rec1("results",
         List(<<MarketRecord("sell_price", "house", Str(first_date), a, a, a),
                MarketRecord("sell_price", "house", Str(last_date), b, c, a)>>))

YearApartPayloads ==
    {TwoPoints(dates[1], dates[2], Whole(100), b, c) :
        dates \in {<<"2019-01-01", "2020-01-01">>, <<"2019-07-01", "2020-07-01">>},
        b \in {Whole(90), Whole(110), Num(110500)},
        c \in {Whole(110), Num(125500)}}
    \cup {TwoPoints("2019-01-01", "2020-01-01",
                     Whole(500000), Whole(550000), Whole(520000))}

MaxPrices == 3    \* prices handed to the volatility

\* lists of prices, non-positive ones included
PriceLists ==
    UNION {[1..k -> {-100 * Scale, 0, 100 * Scale, 120 * Scale}] : k \in 0..MaxPrices}

MaxSeries == 3    \* points of a series handed to the investment score

\* suburb prices of a series: none, and ones 2, 3, 20 and 50 per cent apart
SeriesPrices == {0, 97, 98, 100, 102, 103, 120, 150}

\* first prices that the later ones are a multiple of: 2, 2.4, 2.5, 3, 3.75
LowPrices == {40, 50}

\* short lists of prices, lists of 7 prices, and lists that multiply their
\* first price
ScorePriceLists ==
    UNION {[1..k -> SeriesPrices] : k \in 0..MaxSeries}
    \cup {<<first>> \o [i \in 1..5 |-> middle] \o <<last>> :
            first \in SeriesPrices, middle \in {0, 100}, last \in SeriesPrices}
    \cup {<<first>> \o [i \in 1..k |-> last] :
            first \in LowPrices, last \in {0, 100, 120, 150}, k \in 1..MaxSeries}

Months ==
    <<"2020-01-01", "2020-02-01", "2020-03-01", "2020-04-01", "2020-05-01",
      "2020-06-01", "2020-07-01", "2020-08-01">>

\* the series of a list of prices, as _extract_price_series returns it
SeriesOf(prices) ==
    [i \in 1..Len(prices) |->
        Dict(<< <<"date", Str(Months[i])>>, <<"suburb", Whole(prices[i])>>,
                <<"cr", Whole(100)>>, <<"sa3", Whole(100)>> >>)]

\* rounded CR differences, in thousandths of a per cent
CrDifferences == {-10100, -10000, -5100, -5000, -100, 0, 5800}

\* a regional comparison with the given CR difference
ComparisonOf(cr_diff) ==
    Dict(<< <<"cr", Dict(<< <<"price", Whole(100)>>, <<"difference", Num(cr_diff)>>,
                            <<"status", IF cr_diff < 0 THEN Str("below")
                                        ELSE Str("above")>> >>)>>,
            <<"sa3", Dict(<< <<"price", Whole(100)>>, <<"difference", Num(0)>>,
                             <<"status", Str("above")>> >>)>> >>)

MaxPoints == 3    \* points of a series handed to the current metrics

\* the dates of a series, in calendar order
SeriesDates ==
    <<"2015-01-01", "2019-01-01", "2019-07-01", "2020-01-01", "2020-07-01">>

\* suburb values of a point: negative, none, and two 10 per cent apart
PointValues == {-100, 0, 100, 110}

\* ascending choices of at most MaxPoints of the dates
DateChoices ==
    {picked \in UNION {[1..k -> 1..Len(SeriesDates)] : k \in 0..MaxPoints} :
        \A i \in 1..(Len(picked) - 1) : picked[i] < picked[i + 1]}

\* series as _extract_price_series returns them: one point per date, in
\* ascending order of the dates
DatedSeries ==
    UNION {{[i \in 1..Len(picked) |->
                Dict(<< <<"date", Str(SeriesDates[picked[i]])>>,
                        <<"suburb", Whole(values[i])>>,
                        <<"cr", Whole(100)>>, <<"sa3", Whole(100)>> >>)] :
              values \in [1..Len(picked) -> PointValues]} :
           picked \in DateChoices}

\* suburb values of the latest point: none, 0.04 per cent under 100, 100, 110
LatestValues == {0, 99960, 100 * Scale, 110 * Scale}

\* region values of the latest point: negative, none, 100, 120
RegionValues == {-100 * Scale, 0, 100 * Scale, 120 * Scale}

\* series of one or two points: every latest point, after no point or after
\* one whose values are all different
RegionalSeries ==
    {before \o << Dict(<< <<"date", Str("2020-01-01")>>, <<"suburb", Num(suburb)>>,
                          <<"cr", Num(cr)>>, <<"sa3", Num(sa3)>> >>) >> :
        before \in {<<>>, << Dict(<< <<"date", Str("2019-01-01")>>,
                                     <<"suburb", Whole(50)>>, <<"cr", Whole(200)>>,
                                     <<"sa3", Whole(10)>> >>) >>},
        suburb \in LatestValues, cr \in RegionValues, sa3 \in RegionValues}

MaxEntries == 3    \* entries of the nested market list of a detail merge

\* entries of the nested list: two sale and two rent figures, another metric
MetricEntries ==
    {Dict(<< <<"metric", Str("sell_price")>>, <<"value", Whole(500)>> >>),
     Dict(<< <<"metric", Str("sell_price")>>, <<"value", Num(600700)>> >>),
     Dict(<< <<"metric", Str("rent_price")>>, <<"value", Whole(450)>> >>),
     Dict(<< <<"metric", Str("rent_price")>>, <<"value", Whole(400)>> >>),
     Dict(<< <<"metric", Str("days_on_market")>>, <<"value", Whole(30)>> >>)}

\* market payloads of the service, {"results": [[...]]}
NestedMarkets ==
    {Rec1("results", List(<<List(entries)>>)) :
        entries \in UNION {[1..k -> MetricEntries] : k \in 0..MaxEntries}}

MaxTokens == 2    \* words of an identifier

NameTokens == {<<"s", "t">>, <<"k", "i", "l", "d", "a">>}
Postcodes == {<<"3", "1", "8", "2">>, <<"3", "1", "8", "3">>}

\* the identifier of a list of words and a postcode (<<>>: no postcode)
Identifier(tokens, postcode) ==
    Join(tokens \o (IF postcode = <<>> THEN <<>> ELSE <<postcode>>), "-")

\* identifiers: well-formed ones, and a few that validate_suburb_id rejects
IdentifierInputs ==
    {[chars |-> Identifier(tokens, postcode), tokens |-> tokens,
      postcode |-> postcode] :
        tokens \in UNION {[1..k -> NameTokens] : k \in 1..MaxTokens},
        postcode \in Postcodes \cup {<<>>}}
    \cup {[chars |-> chars, tokens |-> <<>>, postcode |-> <<>>] :
            chars \in {<<>>, <<"3", "1", "8", "2">>,
                       <<"S", "t", "-", "K", "I", "L", "D", "A">>,
                       <<"s", "t", "-", "-", "3", "1">>,
                       <<"s", "t", "-", "3", "a">>}}

\* answers to get_suburb_info: state and postcode given, no geo_divisions
\* entries, and a null where the information object belongs
InfoAnswers ==
    {Rec1("information",
          Rec1("geo_divisions",
               Dict(<< <<"state", Str("VIC")>>, <<"poa", Str("3182")>> >>))),
     BodyInfo,
     Rec1("information", None)}

SummaryAnswers == {BodyResults}

\* the market payload of the service: a sale figure of 600.7, a rent of 450
RemoteMarket ==
    Rec1("results",
         List(<<List(<<MarketRecord("sell_price", "house", Str("2020-01-01"),
                                      Num(600700), None, None),
                        MarketRecord("rent_price", "house", Str("2020-01-01"),
                                      Whole(450), None, None)>>)>>))

\* answers to get_market_trends: the service's nested list, a default
\* structure under an identifier as the local adapter wraps it, and a record
\* without a value
MarketAnswers ==
    {RemoteMarket,
     Rec1("st-3182", DefaultStructure("get_market_trends")),
     Rec1("results",
          List(<<List(<<MarketRecord("sell_price", "house", Str("2020-01-01"),
                                       None, None, None)>>)>>))}

\* what an injected remote or local adapter does when asked: it raises,
\* returns nothing, or returns one of the answers
StubApiOver(answers) ==
    [raised : {FALSE}, ret : {None} \cup answers, requests : {<<>>}]
        \cup {[raised |-> TRUE, ret |-> None, requests |-> <<>>]}
StubFileOver(answers) ==
    [raised : {FALSE}, ret : {None, EmptyDict} \cup answers, loads : {<<>>}]
        \cup {[raised |-> TRUE, ret |-> None, loads |-> <<>>]}

\* well-formed identifiers of one word
DetailIds ==
    {id \in IdentifierInputs : MatchesPattern(id.chars) /\ Len(id.tokens) = 1}

\* a payload without any key of the raw or of the frontend format
Other == Rec1("message", Str("no data"))

\* raw payloads of a domain
RawPayloads(op) ==
    CASE op = "get_demographics" ->
            {Rec1("age_brackets", List(q)) : q \in Lists(AgeBrackets)}
            \cup {Rec1("ethnicities", List(q)) : q \in Lists(Ethnicities)}
            \cup {Rec1("results", List(q)) : q \in Lists(EthnicityAreas)}
            \cup {Dict(<< <<"age_brackets", List(<<a>>)>>,
                          <<"ethnicities", List(<<e>>)>>,
                          <<"results", List(<<r>>)>> >>) :
                    a \in AgeBrackets, e \in Ethnicities, r \in EthnicityAreas}
            \cup {Rec1("age_brackets", None), Rec1("ethnicities", None),
                  Rec1("results", None), Other}
      [] op = "get_amenities" ->
            {Rec1("results", List(q)) : q \in Lists(Amenities)}
            \cup {Rec1("results", None), Other,
                  Rec1("categories", List(<<Str("Cafe")>>)),
                  Rec1("categories", Whole(2)),
                  Dict(<< <<"categories", List(<<Str("Cafe")>>)>>,
                          <<"results", List(<<Rec1("category", Str("Cafe"))>>)>> >>)}
      [] op = "get_market_trends" ->
            {Rec1("results", List(q)) : q \in Lists(MarketRecords)}
            \cup {Rec1("results", List(<<List(q)>>)) : q \in Lists(MarketRecords)}
            \cup YearApartPayloads
            \cup {Rec1("results", None), Rec1("results", EmptyDict), Other}
      [] op = "get_schools" ->
            {Rec1("results", List(q)) : q \in Lists(Schools)}
            \cup {Rec1("results", None), Other,
                  Rec1("schools", List(<<Str("Carlton Primary")>>)),
                  Rec1("schools", List(<<Rec1("school_name", Str("Carlton Primary"))>>))}
      [] op = "get_developments" ->
            {Rec1("results", List(q)) : q \in Lists(Developments)}
            \cup {Rec1("results", List(ManyDevelopments)),
                  Rec1("results", List(ManyWithGaps)),
                  Rec1("results", None), Other,
                  Rec1("developments", List(<<Rec1("name", Str("Townhouses"))>>))}

\* payloads already in frontend format: what the transform makes of a raw
\* payload, the local adapter's empty structure, and a stored record
FrontendPayloads(op) ==
    {t.ret : t \in {r \in {transform(op, raw) : raw \in RawPayloads(op)} :
                        ~r.raised /\ Has(r.ret, ListKey(op))}}
    \cup {DefaultStructure(op)}
    \cup (CASE op = "get_demographics" ->
                 {Dict(<< <<"ageDistribution",
                            List(<<Dict(<< <<"age", Str("0-4")>>,
                                           <<"population", Whole(900)>>,
                                           <<"percentage", Whole(6)>> >>)>>)>>,
                          <<"ethnicity", EmptyList>> >>)}
            [] op = "get_amenities" ->
                 {Dict(<< <<"categories",
                            List(<<Dict(<< <<"name", Str("Cafe")>>,
                                           <<"count", Whole(2)>>,
                                           <<"percentage", Whole(100)>> >>)>>)>>,
                          <<"total", Whole(2)>>,
                          <<"results", List(<<Rec1("category", Str("Park"))>>)>> >>)}
            [] op = "get_market_trends" ->
                 {Dict(<< <<"priceHistory", EmptyList>> >> \o ZeroBundle
                       \o << <<"results", EmptyList>> >>)}
            [] op = "get_schools" ->
                 {Dict(<< <<"schools", List(<<Rec1("name", Str("Carlton Primary"))>>)>>,
                          <<"total", Whole(1)>> >>)}
            [] op = "get_developments" ->
                 {Dict(<< <<"developments", List(<<Rec1("id", Str("DA-1"))>>)>>,
                          <<"total", Whole(1)>>, <<"showing", Whole(1)>> >>)})

\* what self.repo may hand to the orchestrator for a suburb
RepositoryData(op, suburb_id, format) ==
    IF format = "frontend"
    THEN {Rec1(suburb_id, p) : p \in FrontendPayloads(op)}
    ELSE {Rec1(suburb_id, p) : p \in RawPayloads(op) \cup {EmptyDict, None}}
         \cup {None, EmptyDict, Rec1("fitzroy-3065", Other)}

\* the canonical fields of a domain
CanonicalFields(op) ==
    CASE op = "get_demographics" -> {"ageDistribution", "ethnicity"}
      [] op = "get_amenities" -> {"categories", "total"}
      [] op = "get_market_trends" ->
            {"priceHistory", "currentPrice", "priceGrowth", "regionalComparison",
             "investmentScore", "analytics"}
      [] op = "get_schools" -> {"schools", "total"}
      [] op = "get_developments" -> {"developments", "total", "showing"}

\* identifiers a route may be asked for, character by character: the two the
\* adapters know, the empty one, one with a capital and a blank, and one
\* that ends in a line feed
RouteSpellings ==
    {<<"c", "a", "r", "l", "t", "o", "n", "-", "3", "0", "5", "3">>,
     <<"r", "i", "c", "h", "m", "o", "n", "d", "-", "3", "1", "2", "1">>,
     <<>>,
     <<"C", "a", "r", "l", "t", "o", "n", " ", "3", "0", "5", "3">>,
     <<"c", "a", "r", "l", "t", "o", "n", "-", "3", "0", "5", "3", "\n">>}

RouteIds == {Text(chars) : chars \in RouteSpellings}

Spelling(suburb_id) == CHOOSE chars \in RouteSpellings : Text(chars) = suburb_id

\* validate_suburb_id
validate_suburb_id(suburb_id) ==
    IF suburb_id = "" THEN Raise
    ELSE IF ~re_match_pattern(Spelling(suburb_id)) THEN Raise
    ELSE Ok(None)

\* the arguments a route hands the data service for the identifier of its URL
RouteArgsOf(op) ==
    {[args EXCEPT !.suburb_id = suburb_id] :
        args \in ArgsOf(op), suburb_id \in RouteIds}

----------------------------------------------------------------------------
(* Operations.  Each runs on a fresh request (call = Idle).                 *)

Idle == [kind |-> "idle"]

Init ==
    /\ call = Idle
    /\ apiLog = <<>>
    /\ fileLog = <<>>
    /\ requests = <<>>
    /\ loads = <<>>
    /\ result = None
    /\ raised = FALSE
    /\ status = 0

\* an operation leaves what it did and what it returned
Returns(c, r) ==
    /\ call' = c
    /\ apiLog' = r.apiLog
    /\ fileLog' = r.fileLog
    /\ requests' = r.requests
    /\ loads' = r.loads
    /\ result' = r.ret
    /\ raised' = r.raised
    /\ status' = 0

\* a coordinator operation over injected adapters
CoordinatorStub ==
    /\ call = Idle
    /\ \E op \in Ops : \E args \in ArgsOf(op) :
       \E api \in StubApi : \E file \in StubFile :
        Returns([kind |-> "coordinator", wiring |-> "stub", op |-> op,
                 args |-> args, api |-> api, file |-> file],
                Composite(op, args, api, file))

\* a coordinator operation over the real adapters
CoordinatorReal ==
    /\ call = Idle
    /\ \E op \in Ops : \E args \in ArgsOf(op) :
       \E net \in Nets : \E f \in FileStatesOf(op) :
        /\ (op # "get_demographics" =>
                net["/suburb/ethnicity"] = net["/suburb/info"])
        /\ Returns([kind |-> "coordinator", wiring |-> "real", op |-> op,
                    args |-> args, api |-> ApiRepo(op, args, net),
                    file |-> FileRepo(op, args, f), net |-> net, snapshot |-> f],
                   Composite(op, args, ApiRepo(op, args, net),
                             FileRepo(op, args, f)))

\* an operation of the remote adapter, called directly
ApiRepoCall ==
    /\ call = Idle
    /\ \E op \in Ops : \E args \in ArgsOf(op) : \E net \in Nets :
        /\ (op # "get_demographics" =>
                net["/suburb/ethnicity"] = net["/suburb/info"])
        /\ LET r == ApiRepo(op, args, net)
           IN  Returns([kind |-> "api_repo", op |-> op, args |-> args,
                        net |-> net],
                       [raised |-> r.raised, ret |-> r.ret, apiLog |-> <<>>,
                        fileLog |-> <<>>, requests |-> r.requests,
                        loads |-> <<>>])

\* an operation of the local adapter, called directly
FileRepoCall ==
    /\ call = Idle
    /\ \E op \in Ops : \E args \in ArgsOf(op) : \E f \in FileStatesOf(op) :
        LET r == FileRepo(op, args, f)
        IN  Returns([kind |-> "file_repo", op |-> op, args |-> args,
                     snapshot |-> f],
                    [raised |-> r.raised, ret |-> r.ret, apiLog |-> <<>>,
                     fileLog |-> <<>>, requests |-> <<>>, loads |-> r.loads])

\* what a step that touches no adapter leaves
Pure(r) ==
    [raised |-> r.raised, ret |-> IF r.raised THEN None ELSE r.ret,
     apiLog |-> <<>>, fileLog |-> <<>>, requests |-> <<>>, loads |-> <<>>]

\* the operations the routes reach through get_suburb_data or its inlined copy
RouteOps == FallbackOps

\* a suburb route asked for an identifier that validate_suburb_id lets
\* through: the data service is asked (over the coordinator and the real
\* adapters); an empty answer is a 404, an exception a 500 (handle_errors)
Route ==
    /\ call = Idle
    /\ \E op \in RouteOps : \E args \in RouteArgsOf(op) :
       \E net \in Nets : \E f \in FileStatesOf(op) :
        /\ ~validate_suburb_id(args.suburb_id).raised
        /\ (op # "get_demographics" =>
                net["/suburb/ethnicity"] = net["/suburb/info"])
        /\ \E repo \in {Composite(op, args, ApiRepo(op, args, net),
                                    FileRepo(op, args, f))} :
           \E data \in {DataService(op, args.suburb_id, repo.ret)} :
               /\ call' = [kind |-> "route", op |-> op, args |-> args,
                           api |-> ApiRepo(op, args, net), net |-> net,
                           snapshot |-> f]
               /\ apiLog' = repo.apiLog
               /\ fileLog' = repo.fileLog
               /\ requests' = repo.requests
               /\ loads' = repo.loads
               /\ raised' = data.raised
               /\ result' = IF data.raised \/ ~Truthy(data.ret)
                            THEN None ELSE data.ret
               /\ status' = IF data.raised THEN 500
                            ELSE IF ~Truthy(data.ret) THEN 404 ELSE 200

\* a suburb route asked for an identifier that validate_suburb_id rejects:
\* the ValueError becomes a 400 before anything is fetched
RouteRejects ==
    /\ call = Idle
    /\ \E op \in RouteOps : \E suburb_id \in RouteIds :
        /\ validate_suburb_id(suburb_id).raised
        /\ call' = [kind |-> "route_rejected", op |-> op, suburb_id |-> suburb_id]
        /\ status' = 400
        /\ raised' = FALSE
        /\ result' = None
        /\ UNCHANGED <<apiLog, fileLog, requests, loads>>

\* the three fetches get_suburb_details makes on the coordinator
DetailOps == <<"get_suburb_info", "get_suburb_summary", "get_market_trends">>

\* self.repo.<op>(suburb_id): get_suburb_info takes its default geojson=True
DetailArgs(op, suburb_id) ==
    IF op \in GeoOps THEN [suburb_id |-> suburb_id, geojson |-> TRUE]
    ELSE [suburb_id |-> suburb_id]

\* get_suburb_details over a coordinator with injected adapters
SuburbDetailsStub ==
    /\ call = Idle
    /\ \E id \in DetailIds :
       \E api \in [info : StubApiOver(InfoAnswers),
                   summary : StubApiOver(SummaryAnswers),
                   market : StubApiOver(MarketAnswers)] :
       \E file \in [info : StubFileOver({BodyInfo}),
                    summary : StubFileOver(SummaryAnswers),
                    market : StubFileOver({Rec1("st-3182",
                                 DefaultStructure("get_market_trends"))})] :
       \E fetch \in {[i \in 1..3 |->
                        Composite(DetailOps[i], DetailArgs(DetailOps[i], Text(id.chars)),
                                  <<api.info, api.summary, api.market>>[i],
                                  <<file.info, file.summary, file.market>>[i])]} :
        /\ Returns([kind |-> "details", wiring |-> "stub", suburb_id |-> id.chars,
                    api |-> api, file |-> file],
                   get_suburb_details(id.chars, fetch[1], fetch[2], fetch[3]))

\* what the remote service answers to the three requests of a detail view:
\* a failure or a body for /suburb/info, for /suburb/market and for the rest
DetailNets ==
    {[e \in Endpoints |->
        IF e = "/suburb/info" THEN info
        ELSE IF e = "/suburb/market" THEN market ELSE summary] :
        info \in {[kind |-> "timeout"]} \cup [kind : {"ok"}, body : InfoAnswers],
        market \in {[kind |-> "timeout"]}
                      \cup [kind : {"ok"}, body : {RemoteMarket, EmptyDict}],
        summary \in {[kind |-> "timeout"]} \cup [kind : {"ok"}, body : SummaryAnswers]}

\* the snapshot states of a detail view: unloadable, or at most one entry
DetailFileStates ==
    {f \in FileStates : f.kind = "ok" => Len(f.data.items) <= 1}

\* get_suburb_details over the coordinator and the real adapters
SuburbDetailsReal ==
    /\ call = Idle
    /\ \E id \in DetailIds : \E net \in DetailNets :
       \E f \in [info : DetailFileStates, market : DetailFileStates] :
       \E api \in {[i \in 1..3 |->
                      ApiRepo(DetailOps[i], DetailArgs(DetailOps[i], Text(id.chars)), net)]} :
       \E file \in {[i \in 1..3 |->
                      FileRepo(DetailOps[i], DetailArgs(DetailOps[i], Text(id.chars)),
                               IF i = 3 THEN f.market ELSE f.info)]} :
       \E fetch \in {[i \in 1..3 |->
                        Composite(DetailOps[i], DetailArgs(DetailOps[i], Text(id.chars)),
                                  api[i], file[i])]} :
        Returns([kind |-> "details", wiring |-> "real", suburb_id |-> id.chars,
                 net |-> net,
                 api |-> [info |-> api[1], summary |-> api[2], market |-> api[3]],
                 file |-> [info |-> file[1], summary |-> file[2],
                           market |-> file[3]]],
                get_suburb_details(id.chars, fetch[1], fetch[2], fetch[3]))

\* the response is handed over; nothing of the request is kept
Discard ==
    /\ call # Idle
    /\ call' = Idle
    /\ apiLog' = <<>>
    /\ fileLog' = <<>>
    /\ requests' = <<>>
    /\ loads' = <<>>
    /\ result' = None
    /\ raised' = FALSE
    /\ status' = 0

Next ==
    \/ CoordinatorStub
    \/ CoordinatorReal
    \/ ApiRepoCall
    \/ FileRepoCall
    \/ Route
    \/ RouteRejects
    \/ SuburbDetailsStub
    \/ SuburbDetailsReal
    \/ Discard

Spec == Init /\ [][Next]_vars

----------------------------------------------------------------------------
(* The canonicalization on its own, over the payloads above.               *)

\* get_demographics .. get_developments of the data service, over a
\* repository that returns `data`
Canonicalize ==
    /\ call = Idle
    /\ \E op \in Domains : \E suburb_id \in Ids : \E format \in {"raw", "frontend"} :
       \E data \in RepositoryData(op, suburb_id, format) :
       \E r \in {Pure(canonicalize(op, suburb_id, data))} :
        Returns([kind |-> "canonicalize", op |-> op, suburb_id |-> suburb_id,
                 data |-> data, format |-> format, pass |-> 1, first |-> None], r)

\* the same method once more, over a repository that returns the answer of
\* the first pass
CanonicalizeAgain ==
    /\ call.kind = "canonicalize"
    /\ call.pass = 1
    /\ ~raised
    /\ \E r \in {Pure(canonicalize(call.op, call.suburb_id, result))} :
        Returns([call EXCEPT !.pass = 2, !.first = result], r)

\* a transform applied to a payload directly
Transform ==
    /\ call = Idle
    /\ \E op \in Domains : \E raw_data \in RawPayloads(op) \cup {EmptyDict, None} :
       \E r \in {Pure(transform(op, raw_data))} :
        Returns([kind |-> "transform", op |-> op, raw_data |-> raw_data], r)

\* _extract_price_series applied to a results list directly
ExtractPriceSeries ==
    /\ call = Idle
    /\ \E q \in RecordLists :
       \E series \in {extract_price_series(List(q))} :
        Returns([kind |-> "extract_price_series", results |-> List(q)],
                Pure([raised |-> series.raised,
                      ret |-> IF series.raised THEN None ELSE List(series.ret)]))

\* _calculate_volatility applied to a list of prices directly
CalculateVolatility ==
    /\ call = Idle
    /\ \E prices \in PriceLists :
       \E r \in {Pure(Ok(calculate_volatility(prices)))} :
        Returns([kind |-> "calculate_volatility", prices |-> prices], r)

\* _calculate_investment_score applied to a series and a comparison directly
CalculateInvestmentScore ==
    /\ call = Idle
    /\ \E prices \in ScorePriceLists : \E cr_diff \in CrDifferences :
       \E r \in {Pure(Ok(calculate_investment_score(SeriesOf(prices),
                                                     ComparisonOf(cr_diff))))} :
        Returns([kind |-> "calculate_investment_score",
                 series |-> SeriesOf(prices), cr_diff |-> cr_diff], r)

\* _calculate_current_metrics applied to a series directly
CalculateCurrentMetrics ==
    /\ call = Idle
    /\ \E series \in DatedSeries :
       \E r \in {Pure(calculate_current_metrics(series))} :
        Returns([kind |-> "calculate_current_metrics", series |-> series], r)

\* _calculate_regional_comparison applied to a series directly
CalculateRegionalComparison ==
    /\ call = Idle
    /\ \E series \in RegionalSeries :
       \E r \in {Pure(Ok(calculate_regional_comparison(series)))} :
        Returns([kind |-> "calculate_regional_comparison", series |-> series], r)

\* _aggregate_suburb_data applied to three payloads directly
AggregateSuburbData ==
    /\ call = Idle
    /\ \E id \in DetailIds : \E info_data \in {None} \cup InfoAnswers :
       \E market_data \in {None} \cup NestedMarkets :
       \E r \in {Pure(aggregate_suburb_data(id.chars, info_data, BodyResults,
                                            market_data))} :
        Returns([kind |-> "aggregate_suburb_data", suburb_id |-> id.chars,
                 info_data |-> info_data, summary_data |-> BodyResults,
                 market_data |-> market_data], r)

\* the name of an identifier, as the orchestrator and as the remote adapter
\* compute it
ExtractSuburbName ==
    /\ call = Idle
    /\ \E id \in IdentifierInputs :
       \E r \in {Pure(Ok(Str(Text(aggregate_suburb_name(id.chars)))))} :
        Returns([kind |-> "suburb_name", suburb_id |-> id.chars,
                 tokens |-> id.tokens, postcode |-> id.postcode,
                 api_name |-> Str(Text(extract_suburb_name(id.chars)))], r)

NextCanon ==
    \/ Canonicalize
    \/ CanonicalizeAgain
    \/ Transform
    \/ ExtractPriceSeries
    \/ CalculateVolatility
    \/ CalculateInvestmentScore
    \/ CalculateCurrentMetrics
    \/ CalculateRegionalComparison
    \/ AggregateSuburbData
    \/ ExtractSuburbName
    \/ Discard

SpecCanon == Init /\ [][NextCanon]_vars

----------------------------------------------------------------------------
(* Properties of the data-access layer, checked under Spec.                *)

Coordinated == call.kind = "coordinator"
RemoteHasData == ~call.api.raised /\ Truthy(call.api.ret)

\* C1: in every coordinator operation, when the remote adapter's method
\* returns a non-empty result the coordinator returns that result and does
\* not call the local adapter's method (so no snapshot is read either).
C1_RemoteDataWins ==
    (Coordinated /\ RemoteHasData) =>
        /\ ~raised
        /\ result = call.api.ret
        /\ apiLog = << <<call.op, call.args>> >>
        /\ fileLog = <<>>
        /\ loads = <<>>

\* the remote adapter returned data while the local one held other data
C1_Witness ==
    /\ Coordinated
    /\ RemoteHasData
    /\ ~call.file.raised
    /\ Truthy(call.file.ret)
    /\ call.file.ret # call.api.ret
    /\ result = call.api.ret

\* C2: no coordinator operation lets an exception out, whichever adapter
\* raised it.
C2_NeverRaises == Coordinated => ~raised

\* C3 as claimed: one coordinator operation reaches the remote backend at
\* most once and the local backend at most once.
C3_AtMostOneCallEach ==
    Coordinated =>
        /\ Len(apiLog) <= 1
        /\ Len(fileLog) <= 1
        /\ Len(requests) <= 1
        /\ Len(loads) <= 1

\* C3 as the code has it: the coordinator calls each adapter's method at
\* most once and the local adapter opens at most one snapshot; the remote
\* adapter sends at most one request, except get_demographics, which sends
\* the ethnicity request after a demographics request that returned data.
\* No request is sent twice and nothing is repeated after a failure.
C3_NoRepeatedCall ==
    Coordinated =>
        /\ Len(apiLog) <= 1
        /\ Len(fileLog) <= 1
        /\ Len(loads) <= 1
        /\ Len(requests) <= (IF call.op = "get_demographics" THEN 2 ELSE 1)
        /\ \A i, j \in 1..Len(requests) : i # j => requests[i] # requests[j]
        /\ Len(requests) = 2 =>
               /\ requests = <<"/suburb/demographics", "/suburb/ethnicity">>
               /\ call.net["/suburb/demographics"].kind = "ok"
               /\ Truthy(call.net["/suburb/demographics"].body)
        /\ (call.wiring = "real" /\ call.op \notin {"get_street_rankings"}
              /\ call.net[requests[1]].kind # "ok") => Len(requests) = 1

\* the remote request failed, the local adapter took over, nothing was retried
C3_Witness ==
    /\ Coordinated
    /\ call.wiring = "real"
    /\ call.op = "get_market_trends"
    /\ call.net["/suburb/market"].kind = "timeout"
    /\ requests = <<"/suburb/market">>
    /\ Len(fileLog) = 1
    /\ Len(loads) = 1

\* results compared as the caller sees them: every empty value is "no data"
SameResult(a, b) == a = b \/ (~Truthy(a) /\ ~Truthy(b))

\* C4: in every coordinator operation, when the remote adapter returns an
\* empty result or raises, the local adapter's method is called exactly once
\* with the arguments of the operation and the coordinator returns what the
\* local adapter returned.
C4_FallbackReturnsLocal ==
    (Coordinated /\ ~RemoteHasData) =>
        /\ fileLog = << <<call.op, call.args>> >>
        /\ ~call.file.raised => (~raised /\ SameResult(result, call.file.ret))

----------------------------------------------------------------------------
(* The remote adapter on its own.                                          *)

Failed(endpoint) == call.net[endpoint].kind # "ok"

\* C5 as claimed: when a request of a remote adapter operation meets a
\* transport failure, the operation returns None and does not raise.
C5_FailureGivesNone ==
    (call.kind = "api_repo" /\ \E i \in 1..Len(requests) : Failed(requests[i]))
        => (~raised /\ result = None)

\* C5 as the code has it: no remote adapter operation raises a transport
\* failure.  When its (first) request fails the operation returns None,
\* search_suburbs the empty list; when only the ethnicity request of
\* get_demographics fails, the demographics are returned without it.
C5_FailureIsAbsorbed ==
    call.kind = "api_repo" =>
        /\ ~raised
        /\ (requests # <<>> /\ Failed(requests[1])) =>
               /\ Len(requests) = 1
               /\ result = IF call.op = "search_suburbs" THEN EmptyList ELSE None
        /\ (Len(requests) = 2 /\ Failed(requests[2])) =>
               result = Dict(<< <<call.args.suburb_id,
                                  call.net[requests[1]].body>> >>)

\* the body of the answer could not be parsed
C5_Witness ==
    /\ call.kind = "api_repo"
    /\ call.op = "get_schools"
    /\ call.net["/suburb/schools"].kind = "bad_body"
    /\ requests = <<"/suburb/schools">>
    /\ result = None

----------------------------------------------------------------------------
(* The local adapter on its own.                                           *)

\* the snapshot loaded, has entries, and none for the requested identifier
UnknownIdentifier ==
    /\ call.kind = "file_repo"
    /\ loads # <<>>
    /\ call.op # "search_suburbs"
    /\ call.snapshot.kind = "ok"
    /\ Truthy(call.snapshot.data)
    /\ ~Has(call.snapshot.data, call.args.suburb_id)

FirstEntry == call.snapshot.data.items[1][2]

\* C6 as claimed: every operation of the local adapter answers an unknown
\* identifier with the first entry of the snapshot, keyed by that identifier.
C6_AlwaysSubstitutes ==
    UnknownIdentifier =>
        result = Dict(<< <<call.args.suburb_id, FirstEntry>> >>)

\* C6 as the code has it: demographics, amenities, market trends, schools
\* and developments answer an unknown identifier with the first entry of a
\* non-empty snapshot, keyed by the requested identifier; info and summary
\* return None, and the other operations {identifier: {}} (or [] for
\* catchments and similar suburbs), without a stand-in.
C6_SubstitutionPolicy ==
    UnknownIdentifier =>
        /\ ~raised
        /\ result =
             IF call.op \in SubstitutingOps
             THEN Dict(<< <<call.args.suburb_id, FirstEntry>> >>)
             ELSE IF call.op \in InfoOps THEN None
             ELSE Dict(<< <<call.args.suburb_id,
                            IF call.op \in ListDefaultOps
                            THEN EmptyList ELSE EmptyDict>> >>)

\* the stand-in is the first of two entries, neither of them the one asked for
C6_Witness ==
    /\ UnknownIdentifier
    /\ call.op = "get_schools"
    /\ call.args.suburb_id = "carlton-3053"
    /\ Keys(call.snapshot.data) = <<"richmond-3121", "fitzroy-3065">>
    /\ result = Dict(<< <<"carlton-3053", Entry("richmond-3121")>> >>)

LoadFailed == call.snapshot.kind \in {"missing", "unparsable"}
RemoteEmpty == call.api.raised \/ ~Truthy(call.api.ret)

NoSnapshotAnswer ==
    CASE call.op = "search_suburbs" -> EmptyList
      [] call.op \in {"get_suburb_info", "get_suburb_summary",
                      "get_street_rankings"} -> None
      [] call.op = "get_demographics" ->
            Rec1(call.args.suburb_id,
                 Dict(<< <<"ageDistribution", EmptyList>>,
                         <<"ethnicity", EmptyList>> >>))
      [] call.op = "get_amenities" ->
            Rec1(call.args.suburb_id,
                 Dict(<< <<"categories", EmptyList>>, <<"total", Num(0)>> >>))
      [] call.op = "get_market_trends" ->
            Rec1(call.args.suburb_id,
                 Dict(<< <<"priceHistory", EmptyList>>, <<"quarterlyGrowth", Num(0)>>,
                         <<"rentalYield", Num(0)>>, <<"daysOnMarket", Num(0)>> >>))
      [] call.op = "get_schools" ->
            Rec1(call.args.suburb_id,
                 Dict(<< <<"schools", EmptyList>>, <<"total", Num(0)>> >>))
      [] call.op = "get_developments" ->
            Rec1(call.args.suburb_id,
                 Dict(<< <<"developments", EmptyList>>, <<"total", Num(0)>>,
                         <<"showing", Num(0)>> >>))
      [] call.op \in {"get_school_catchments", "get_similar_suburbs"} ->
            Rec1(call.args.suburb_id, EmptyList)
      [] OTHER -> Rec1(call.args.suburb_id, EmptyDict)

----------------------------------------------------------------------------
(* Properties of the canonicalization, checked under SpecCanon.            *)

\* C8: for each of the five domains, canonicalizing the answer of a
\* canonicalization gives that answer again, and a payload that is already
\* in frontend format is returned unchanged.
C8_CanonicalizationIdempotent ==
    /\ (call.kind = "canonicalize" /\ call.pass = 2 =>
            ~raised /\ result = call.first)
    /\ (call.kind = "canonicalize" /\ call.pass = 1 /\ call.format = "frontend" =>
            ~raised /\ result = call.data)

\* a raw market payload with a price series was transformed, and the second
\* pass left the transformed record as it was
C8_Witness ==
    /\ call.kind = "canonicalize"
    /\ call.pass = 2
    /\ call.op = "get_market_trends"
    /\ call.format = "raw"
    /\ call.first # call.data
    /\ Truthy(Get(Get(result, call.suburb_id, None), "priceHistory", None))
    /\ result = call.first

\* C9 (as claimed): the record returned for a suburb by a canonicalized
\* domain has every canonical field of the domain.
C9_EveryCanonicalField ==
    (/\ call.kind = "canonicalize"
     /\ ~raised
     /\ Truthy(result)
     /\ Has(result, call.suburb_id))
    => \A field \in CanonicalFields(call.op) :
          Has(Get(result, call.suburb_id, None), field)

\* C10 (as claimed): no transform, and no price series extraction, raises
\* on a partial or malformed payload.
C10_TransformsNeverRaise ==
    call.kind \in {"transform", "extract_price_series"} => ~raised

----------------------------------------------------------------------------
(* Properties of the orchestrator over the coordinator and both adapters,  *)
(* checked under Spec.                                                     *)

\* C11 (as claimed), for the domain the claim names: the record the market
\* trends route answers with carries priceHistory, currentPrice, priceGrowth,
\* regionalComparison, investmentScore and analytics, whether the remote
\* adapter or the local adapter (its snapshot, or its empty structure)
\* supplied the payload.
C11_MarketFieldsFromEitherAdapter ==
    (/\ call.kind = "route"
     /\ call.op = "get_market_trends"
     /\ status = 200)
    => /\ Has(result, call.args.suburb_id)
       /\ \A field \in CanonicalFields(call.op) :
             Has(Get(result, call.args.suburb_id, None), field)

----------------------------------------------------------------------------
(* Properties of get_suburb_details, checked under Spec.                   *)

Detailed == call.kind = "details"
Fetches == {"info", "summary", "market"}

\* a fetch came back empty from both backends: each raised or returned a
\* value that counts as nothing
EmptyFromBoth(fetch) ==
    /\ call.api[fetch].raised \/ ~Truthy(call.api[fetch].ret)
    /\ call.file[fetch].raised \/ ~Truthy(call.file[fetch].ret)

NotFound == ~raised /\ result = None
AggregatedRecord ==
    /\ ~raised
    /\ IsDict(result)
    /\ Get(result, "id", None) = Str(Text(call.suburb_id))

\* C18: get_suburb_details returns "not found" exactly when the information,
\* summary and market-trend fetches each came back empty from both backends;
\* when at least one of the three is non-empty it returns an aggregated
\* record.
C18_NotFoundOnlyWhenAllEmpty ==
    Detailed =>
        /\ NotFound <=> \A fetch \in Fetches : EmptyFromBoth(fetch)
        /\ (\E fetch \in Fetches : ~EmptyFromBoth(fetch)) => AggregatedRecord

----------------------------------------------------------------------------
(* Properties of the price series and of the market analytics, checked     *)
(* under SpecCanon.                                                        *)

\* a record the extraction takes a point from
IsPriceRecord(item) ==
    /\ IsDict(item)
    /\ Get(item, "metric", None) = Str("sell_price")
    /\ Get(item, "property_type", None) = Str("house")
    /\ Truthy(Get(item, "date", Str("")))

\* the first record of the input that has the date of the i-th
Earliest(records, i) ==
    records[CHOOSE j \in 1..i :
                /\ IsPriceRecord(records[j])
                /\ Get(records[j], "date", None) = Get(records[i], "date", None)
                /\ \A k \in 1..(j - 1) :
                      ~(/\ IsPriceRecord(records[k])
                        /\ Get(records[k], "date", None) = Get(records[i], "date", None))]

\* the point the extraction makes of a record
PointOf(item) ==
    Dict(<< <<"date", Get(item, "date", None)>>,
            <<"suburb", Get(item, "value", Num(0))>>,
            <<"cr", Get(Get(item, "cr", EmptyDict), "value", Num(0))>>,
            <<"sa3", Get(Get(item, "sa3", EmptyDict), "value", Num(0))>> >>)

Extracted == call.kind = "extract_price_series" /\ ~raised

\* C12: in the series extracted from a list of records, every date of a
\* sell_price/house record has exactly one point, and that point carries
\* the suburb, CR and SA3 values of the earliest record of that date in
\* input order.
C12_FirstRecordPerDate ==
    Extracted =>
        \A i \in 1..Len(call.results.l) :
            IsPriceRecord(call.results.l[i]) =>
                /\ Cardinality({n \in 1..Len(result.l) :
                        Get(result.l[n], "date", None)
                            = Get(call.results.l[i], "date", None)}) = 1
                /\ \E n \in 1..Len(result.l) :
                        result.l[n] = PointOf(Earliest(call.results.l, i))

\* two records of 2020-01-01 with different values: the point has the
\* values of the first (300, 100, 100), not of the second (110, 125, 0)
C12_Witness ==
    /\ Extracted
    /\ Len(call.results.l) = 2
    /\ IsPriceRecord(call.results.l[1])
    /\ IsPriceRecord(call.results.l[2])
    /\ Get(call.results.l[1], "date", None) = Str("2020-01-01")
    /\ Get(call.results.l[2], "date", None) = Str("2020-01-01")
    /\ Get(call.results.l[1], "value", None) = Whole(300)
    /\ Get(call.results.l[2], "value", None) = Whole(110)
    /\ result = List(<<PointOf(call.results.l[1])>>)

\* the dates of the points of a series, in order
DatesOf(series) == [n \in 1..Len(series) |-> Get(series[n], "date", None)]

\* the dates of the records the extraction takes points from
PriceRecordDates(records) ==
    {Get(records[i], "date", None) :
        i \in {j \in 1..Len(records) : IsPriceRecord(records[j])}}

\* C20: the extracted price series is strictly ascending by date, so its
\* dates are unique, and the set of its dates is exactly the set of the
\* non-empty dates of the input records whose metric is sell_price and whose
\* property type is house: records of another metric or property type,
\* entries that are not records and records without a date give no point.
C20_SeriesAscendingByDate ==
    Extracted =>
        /\ \A n \in 1..(Len(result.l) - 1) :
              DayNumbers[DatesOf(result.l)[n].s]
                  < DayNumbers[DatesOf(result.l)[n + 1].s]
        /\ {DatesOf(result.l)[n] : n \in 1..Len(result.l)}
              = PriceRecordDates(call.results.l)

\* the records arrive latest first, followed by a rent record of another
\* date: the series has the two sale dates, earliest first
C20_Witness ==
    /\ Extracted
    /\ Len(call.results.l) = 3
    /\ Get(call.results.l[1], "date", None) = Str("2020-01-01")
    /\ Get(call.results.l[2], "date", None) = Str("2019-01-01")
    /\ IsPriceRecord(call.results.l[1])
    /\ IsPriceRecord(call.results.l[2])
    /\ Get(call.results.l[3], "metric", None) = Str("rent_price")
    /\ DatesOf(result.l) = <<Str("2019-01-01"), Str("2020-01-01")>>


\* a record with a suburb, a CR and an SA3 value
HasValues(item) ==
    /\ IsNum(Get(item, "value", None))
    /\ IsDict(Get(item, "cr", None))
    /\ IsNum(Get(Get(item, "cr", None), "value", None))
    /\ IsDict(Get(item, "sa3", None))
    /\ IsNum(Get(Get(item, "sa3", None), "value", None))

\* the market transform was applied to a payload of two price records
TwoPointTransform ==
    /\ call.kind = "transform"
    /\ call.op = "get_market_trends"
    /\ IsDict(call.raw_data)
    /\ IsList(Get(call.raw_data, "results", None))
    /\ Len(Get(call.raw_data, "results", None).l) = 2
    /\ \A i \in 1..2 :
          /\ IsPriceRecord(Get(call.raw_data, "results", None).l[i])
          /\ HasValues(Get(call.raw_data, "results", None).l[i])

\* its two records, and the values a, b, c of the claim
Earlier == Get(call.raw_data, "results", None).l[1]
Later == Get(call.raw_data, "results", None).l[2]
ValueA == Get(Earlier, "value", None).n
ValueB == Get(Later, "value", None).n
ValueC == Get(Get(Later, "cr", None), "value", None).n

\* the same day of the following year
YearLater ==
    ("2019-01-01" :> "2020-01-01") @@ ("2019-07-01" :> "2020-07-01")

\* the later record is dated one calendar year after the earlier one
OneYearApart ==
    /\ Get(Earlier, "date", None).s \in DOMAIN YearLater
    /\ Get(Later, "date", None) = Str(YearLater[Get(Earlier, "date", None).s])

\* the later record is dated 365 days after the earlier one
Days365Apart ==
    /\ Get(Earlier, "date", None).s \in DOMAIN DayNumbers
    /\ Get(Later, "date", None).s \in DOMAIN DayNumbers
    /\ DayNumbers[Get(Later, "date", None).s]
            = DayNumbers[Get(Earlier, "date", None).s] + 365

\* a field of the transformed record
Reported(field) == Get(result, field, None)

\* C13 (as claimed): for two sell_price/house points dated one year apart
\* with values a then b (a > 0) and CR value c > 0 on the later point, the
\* result has currentPrice = b, priceGrowth.1year = (b - a) / a * 100 and
\* regionalComparison.cr = {price c, difference (b - c) / c * 100 to one
\* decimal, status 'above' when b >= c}.
C13_YearApartAnalytics ==
    (TwoPointTransform /\ OneYearApart /\ ValueA > 0 /\ ValueC > 0) =>
        /\ ~raised
        /\ Reported("currentPrice") = Num(ValueB)
        /\ Get(Reported("priceGrowth"), "1year", None)
                = Num(Percent(ValueB - ValueA, ValueA, 10))
        /\ Get(Reported("regionalComparison"), "cr", None)
                = Dict(<< <<"price", Num(ValueC)>>,
                          <<"difference", Num(Percent(ValueB - ValueC, ValueC, 100))>>,
                          <<"status", IF ValueB >= ValueC THEN Str("above")
                                      ELSE Str("below")>> >>)

\* C13 (amended): for two sell_price/house points dated 365 days apart with
\* values a then b (a > 0) and CR value c > 0 on the later point, the result
\* has currentPrice = b cut to a whole number, priceGrowth.1year =
\* (b - a) / a * 100 to two decimals and regionalComparison.cr = {price c cut
\* to a whole number, difference (b - c) / c * 100 to one decimal, status
\* 'above' when b >= c and 'below' otherwise}; when the later point is 366
\* days after the earlier one (a leap day lies between them) the baseline is
\* the later point itself and priceGrowth.1year is 0.
C13_Days365Analytics ==
    /\ (TwoPointTransform /\ Days365Apart /\ ValueA > 0 /\ ValueC > 0) =>
            /\ ~raised
            /\ Reported("currentPrice") = Num(IntOf(ValueB))
            /\ Get(Reported("priceGrowth"), "1year", None)
                    = Num(Percent(ValueB - ValueA, ValueA, 10))
            /\ Get(Reported("regionalComparison"), "cr", None)
                    = Dict(<< <<"price", Num(IntOf(ValueC))>>,
                              <<"difference",
                                Num(Percent(ValueB - ValueC, ValueC, 100))>>,
                              <<"status", IF ValueB >= ValueC THEN Str("above")
                                          ELSE Str("below")>> >>)
    /\ (TwoPointTransform /\ OneYearApart /\ ~Days365Apart /\ ValueB > 0) =>
            /\ ~raised
            /\ Get(Reported("priceGrowth"), "1year", None) = Num(0)

\* 500000 then 550000 a year later, CR value 520000: 550000, 10.0 and
\* {520000, 5.8, 'above'}
C13_Witness ==
    /\ TwoPointTransform
    /\ Days365Apart
    /\ ValueA = 500000 * Scale
    /\ ValueB = 550000 * Scale
    /\ ValueC = 520000 * Scale
    /\ Reported("currentPrice") = Whole(550000)
    /\ Get(Reported("priceGrowth"), "1year", None) = Whole(10)
    /\ Get(Reported("regionalComparison"), "cr", None)
            = Dict(<< <<"price", Whole(520000)>>, <<"difference", Num(5800)>>,
                      <<"status", Str("above")>> >>)

\* the volatility of a list of prices was computed; its prices divided by
\* their greatest common divisor, their number and their sum
VolatilityOf == call.kind = "calculate_volatility"
Prices == Reduced(call.prices)
Count == Len(call.prices)
Total == Sum(Prices)

\* the sum of the squares of n * (price - mean)
SquaredDeviations ==
    Sum([i \in 1..Count |-> (Count * Prices[i] - Total) * (Count * Prices[i] - Total)])

\* the result is the number whose square is the fraction num / den and
\* whose sign is that of the mean; it is 0.0 when num = 0
IsRatio(num, den) ==
    /\ result.sq[1] * den = num * result.sq[2]
    /\ result.sign = (IF num = 0 THEN 0 ELSE IF Total > 0 THEN 1 ELSE -1)

ZeroVolatilityCases ==
    /\ (VolatilityOf => ~raised)
    /\ (VolatilityOf /\ (Count < 2 \/ Total = 0) =>
            result.sign = 0 /\ result.sq[1] = 0)
    /\ (VolatilityOf /\ (\A i, j \in 1..Count : call.prices[i] = call.prices[j]) =>
            result.sign = 0 /\ result.sq[1] = 0)

\* C14 (as claimed): the volatility is the population standard deviation
\* (divisor n) of the prices divided by their mean, that is, its square is
\* sum((x - mean)^2) / (n * mean^2); it is 0.0, without raising, for an empty
\* list, for fewer than 2 prices, when the mean is 0 and for equal prices.
C14_PopulationVolatility ==
    /\ ZeroVolatilityCases
    /\ (VolatilityOf /\ Count >= 2 /\ Total # 0 =>
            IsRatio(SquaredDeviations, Count * Total * Total))

\* C14 (amended): the volatility is the sample standard deviation (divisor
\* n - 1) of the prices divided by their mean, that is, its square is
\* sum((x - mean)^2) / ((n - 1) * mean^2); it is 0.0, without raising, for
\* an empty list, for fewer than 2 prices, when the mean is 0 and for equal
\* prices.
C14_SampleVolatility ==
    /\ ZeroVolatilityCases
    /\ (VolatilityOf /\ Count >= 2 /\ Total # 0 =>
            IsRatio(SquaredDeviations, (Count - 1) * Total * Total))

\* the volatility of [100, 120]: mean 110, sample deviation sqrt(200), so
\* the square of the volatility is 200 / 12100 = 2 / 121 (and not 1 / 121)
C14_Witness ==
    /\ VolatilityOf
    /\ call.prices = <<100 * Scale, 120 * Scale>>
    /\ result.sign = 1
    /\ result.sq[1] * 121 = 2 * result.sq[2]

\* the investment score of a non-empty series was computed
ScoreOf == call.kind = "calculate_investment_score" /\ call.series # <<>>

\* round(min(growth_ratio, 3) * 3.33 * 0.4 + value * 0.3 + stability * 0.3, 1)
\* for the series of the call, as a number
ScoreWith(value_score, stability_score) ==
    LET ratio == GrowthRatio(call.series)
    IN  IF ratio[1] >= 3 * ratio[2]
        THEN Num(RoundDiv(3996 + 300 * (value_score + stability_score), 100)
                 * (Scale \div 10))
        ELSE Num(RoundDiv(ratio[1] * 1332
                          + 300 * (value_score + stability_score) * ratio[2],
                          100 * ratio[2]) * (Scale \div 10))

\* the stability sub-score of the call's series
StabilityOfCall == StabilityScore(calculate_volatility(PositivePrices(call.series)))

\* C15: the value sub-score that enters the investment score is 10 for a CR
\* difference below -10, 8 from -10 to below -5, 6 from -5 to below 0 and 4
\* from 0 on; exactly -10.0 gives 8 and exactly -5.0 gives 6.
C15_ValueScoreStrict ==
    ScoreOf =>
        result.score =
            ScoreWith(IF call.cr_diff < -10 * Scale THEN 10
                      ELSE IF -10 * Scale <= call.cr_diff /\ call.cr_diff < -5 * Scale
                      THEN 8
                      ELSE IF -5 * Scale <= call.cr_diff /\ call.cr_diff < 0 THEN 6
                      ELSE 4,
                      StabilityOfCall)

\* a flat series (growth 1.332, stability 3.0) with a CR difference of
\* exactly -10.0: the score is 6.7, the value sub-score 8 (10 would give 7.3)
C15_Witness ==
    /\ ScoreOf
    /\ call.series = SeriesOf(<<100, 100>>)
    /\ call.cr_diff = -10 * Scale
    /\ result.score = Num(6700)

\* the last 6 points of the call's series (all of them if fewer)
LastSix ==
    IF Len(call.series) <= 6 THEN call.series
    ELSE [i \in 1..6 |-> call.series[Len(call.series) - 6 + i]]

HasPositiveValue(point) == Get(point, "suburb", None).n > 0

\* the values of those points that are positive
Remaining ==
    LET points == SelectSeq(LastSix, HasPositiveValue)
    IN  [i \in 1..Len(points) |-> Get(points[i], "suburb", None).n \div Scale]

\* C16: the trend is decided on the positive values among the last 6 points
\* of the series (all points if fewer): 'stable' when fewer than 2 remain,
\* else 'rising' when the last is more than 2 per cent above the first,
\* 'declining' when it is more than 2 per cent below, 'stable' otherwise
\* (exactly +2% and -2% are 'stable').
C16_TrendClassification ==
    ScoreOf =>
        result.trend =
            (IF Len(Remaining) < 2 THEN "stable"
             ELSE IF (Remaining[Len(Remaining)] - Remaining[1]) * 100
                        > 2 * Remaining[1] THEN "rising"
             ELSE IF (Remaining[Len(Remaining)] - Remaining[1]) * 100
                        < -2 * Remaining[1] THEN "declining"
             ELSE "stable")

\* 7 points, 150 then five times 100 then 103: the last six go from 100 to
\* 103, 'rising', although the series as a whole fell from 150
C16_Witness ==
    /\ ScoreOf
    /\ call.series = SeriesOf(<<150, 100, 100, 100, 100, 100, 103>>)
    /\ result.trend = "rising"

\* the volatility of the positive prices of the call's series
VolatilityOfCall == calculate_volatility(PositivePrices(call.series))

\* C17: on the same volatility the reported bucket is 'low' below 0.15
\* (3/20), 'medium' below 0.25 (1/4) and 'high' otherwise, while the
\* stability sub-score that enters the score is 10 below 0.10 (1/10), 7 below
\* 0.15 and 5 otherwise; so a 'medium' or 'high' result has sub-score 5 and a
\* 'low' one 10 or 7.
C17_TwoThresholdSets ==
    ScoreOf =>
        /\ result.volatility =
                (IF VolatilityBelow(VolatilityOfCall, 3, 20) THEN "low"
                 ELSE IF VolatilityBelow(VolatilityOfCall, 1, 4) THEN "medium"
                 ELSE "high")
        /\ result.score =
                ScoreWith(ValueScore(call.cr_diff),
                          IF VolatilityBelow(VolatilityOfCall, 1, 10) THEN 10
                          ELSE IF VolatilityBelow(VolatilityOfCall, 3, 20) THEN 7
                          ELSE 5)
        /\ (result.volatility \in {"medium", "high"} =>
                result.score = ScoreWith(ValueScore(call.cr_diff), 5))
        /\ (result.volatility = "low" =>
                \/ result.score = ScoreWith(ValueScore(call.cr_diff), 10)
                \/ result.score = ScoreWith(ValueScore(call.cr_diff), 7))

\* prices 100 and 120 (volatility 0.129): the bucket is 'low' while the
\* stability sub-score is 7, the score 4.9 (a sub-score of 10 would give 5.8)
C17_Witness ==
    /\ ScoreOf
    /\ call.series = SeriesOf(<<100, 120>>)
    /\ call.cr_diff = 0
    /\ result.volatility = "low"
    /\ result.score = Num(4900)

\* the name of a well-formed identifier was computed
NameOf == call.kind = "suburb_name" /\ MatchesPattern(call.suburb_id)

\* a word with its first letter in upper case
Capitalized(token) == <<Upper(token[1])>> \o Tail(token)

\* C19: the name of a well-formed identifier is its words, without a
\* trailing all-digit token, each with a capital first letter and joined by
\* single spaces; the remote adapter and the orchestrator compute the same
\* name, and the identifiers that differ from it only in the postcode have
\* the same name.
C19_NameConversion ==
    NameOf =>
        /\ result = Str(Text(Join([i \in 1..Len(call.tokens) |->
                                      Capitalized(call.tokens[i])], " ")))
        /\ call.api_name = result
        /\ \A postcode \in Postcodes \cup {<<>>} :
              Str(Text(aggregate_suburb_name(Identifier(call.tokens, postcode))))
                  = result

\* st-kilda-3182 is "St Kilda", and so is st-kilda-3183
C19_Witness ==
    /\ NameOf
    /\ Text(call.suburb_id) = "st-kilda-3182"
    /\ result = Str("St Kilda")
    /\ call.api_name = Str("St Kilda")
    /\ Text(aggregate_suburb_name(<<"s", "t", "-", "k", "i", "l", "d", "a", "-",
                                    "3", "1", "8", "3">>)) = "St Kilda"

----------------------------------------------------------------------------
(* Properties of the current metrics, of the regional comparison and of    *)
(* the investment score, checked under SpecCanon.                          *)

MetricsOf == call.kind = "calculate_current_metrics" /\ call.series # <<>>

\* the day of the n-th point of the series
Day(n) == DayNumbers[Get(call.series[n], "date", None).s]
CurrentPrice == Suburb(call.series[Len(call.series)])

\* the n-th point is on or after the last day less `days`, with a value > 0
Qualifies(n, days) ==
    /\ Day(n) >= Day(Len(call.series)) - days
    /\ Suburb(call.series[n]) > 0

\* the value of the earliest qualifying point, else the current price
BaselineOver(days) ==
    IF \E n \in 1..Len(call.series) : Qualifies(n, days)
    THEN Suburb(call.series[CHOOSE n \in 1..Len(call.series) :
                    /\ Qualifies(n, days)
                    /\ \A m \in 1..(n - 1) : ~Qualifies(m, days)])
    ELSE CurrentPrice

GrowthOver(days) ==
    IF BaselineOver(days) > 0
    THEN Num(Percent(CurrentPrice - BaselineOver(days), BaselineOver(days), 10))
    ELSE Num(0)

\* C21: for a non-empty series the 1-year (5-year) growth is computed
\* against the value of the earliest point that is on or after the last
\* point's date less 365 (1825) days and has a value > 0; when no point
\* qualifies the baseline is the current price and the growth is 0; a
\* baseline that is not > 0 gives growth 0 and nothing is raised.
C21_GrowthBaselines ==
    MetricsOf =>
        /\ ~raised
        /\ result.growth_1y = GrowthOver(365)
        /\ result.growth_5y = GrowthOver(1825)
        /\ \A days \in {365, 1825} :
              (\A n \in 1..Len(call.series) : ~Qualifies(n, days)) =>
                  /\ BaselineOver(days) = CurrentPrice
                  /\ GrowthOver(days) = Num(0)

\* 0 on 2019-01-01, 100 on 2019-07-01, 110 on 2020-01-01: the point a year
\* back has no value, so the baseline is the next one and the growth is 10
C21_Witness ==
    /\ MetricsOf
    /\ Len(call.series) = 3
    /\ Get(call.series[1], "date", None) = Str("2019-01-01")
    /\ Get(call.series[3], "date", None) = Str("2020-01-01")
    /\ Suburb(call.series[1]) = 0
    /\ Suburb(call.series[2]) = 100 * Scale
    /\ Suburb(call.series[3]) = 110 * Scale
    /\ result.growth_1y = Whole(10)

\* the market transform returned the analytics of a non-empty series
TransformedSeries ==
    /\ call.kind = "transform"
    /\ call.op = "get_market_trends"
    /\ ~raised
    /\ IsDict(result)
    /\ IsList(Get(result, "priceHistory", None))
    /\ Get(result, "priceHistory", None).l # <<>>
    /\ IsDict(Get(result, "regionalComparison", None))

\* a regional comparison was made of a non-empty series: on its own, or by
\* the market transform
Compared == call.kind = "calculate_regional_comparison" \/ TransformedSeries

ComparedSeries ==
    IF call.kind = "transform" THEN Get(result, "priceHistory", None).l
    ELSE call.series
Comparison ==
    IF call.kind = "transform" THEN Get(result, "regionalComparison", None)
    ELSE result

Latest == ComparedSeries[Len(ComparedSeries)]
Regions == {"cr", "sa3"}
RegionPrice(region) == Get(Latest, region, None).n
StatusOf(region) == Get(Get(Comparison, region, None), "status", None)
DifferenceOf(region) == Get(Get(Comparison, region, None), "difference", None)

\* C22 (as claimed): the regional comparison of a non-empty series is made
\* of the latest point only; for CR and SA3 independently the status is
\* 'below' exactly when the reported difference is < 0 and 'above'
\* otherwise, and a missing or zero region value gives difference 0 and
\* status 'above'.
C22_StatusByReportedDifference ==
    Compared =>
        \A region \in Regions :
            /\ StatusOf(region) \in {Str("below"), Str("above")}
            /\ StatusOf(region) = Str("below") <=> DifferenceOf(region).n < 0
            /\ RegionPrice(region) = 0 =>
                  /\ DifferenceOf(region) = Num(0)
                  /\ StatusOf(region) = Str("above")

\* C22 (amended): the regional comparison of a non-empty series is made of
\* the latest point only; for CR and SA3 independently the difference is
\* (suburb - region) / region * 100 to one decimal and the status is 'below'
\* exactly when that difference is < 0 before it is rounded, i.e. when the
\* region value is > 0 and the suburb value is under it, and 'above'
\* otherwise; a region value that is missing, zero or negative gives
\* difference 0 and status 'above'.
C22_StatusByDifference ==
    Compared =>
        \A region \in Regions :
            /\ Get(Get(Comparison, region, None), "price", None)
                  = Num(IntOf(RegionPrice(region)))
            /\ StatusOf(region) \in {Str("below"), Str("above")}
            /\ StatusOf(region) = Str("below")
                  <=> (RegionPrice(region) > 0 /\ Suburb(Latest) < RegionPrice(region))
            /\ RegionPrice(region) > 0 =>
                  DifferenceOf(region)
                      = Num(Percent(Suburb(Latest) - RegionPrice(region),
                                    RegionPrice(region), 100))
            /\ RegionPrice(region) <= 0 =>
                  /\ DifferenceOf(region) = Num(0)
                  /\ StatusOf(region) = Str("above")

\* 99.96 against a CR value of 100 and an SA3 value of 0, after an earlier
\* point with other values: CR is 'below' with a reported difference of 0,
\* SA3 is 'above' with difference 0
C22_Witness ==
    /\ call.kind = "calculate_regional_comparison"
    /\ Len(call.series) = 2
    /\ Suburb(Latest) = 99960
    /\ RegionPrice("cr") = 100 * Scale
    /\ RegionPrice("sa3") = 0
    /\ StatusOf("cr") = Str("below")
    /\ DifferenceOf("cr") = Num(0)
    /\ StatusOf("sa3") = Str("above")
    /\ DifferenceOf("sa3") = Num(0)

\* the first and the last value of the call's series, in whole units
FirstValue == Suburb(call.series[1]) \div Scale
LastValue == Suburb(call.series[Len(call.series)]) \div Scale

\* growth * 0.4 + value * 0.3 + stability * 0.3 in thousandths, as a fraction
\* <<numerator, denominator>>, with growth = min(ratio, 3) * 3.33
WeightedTotal(value_score, stability_score) ==
    IF FirstValue <= 0
    THEN <<1332 + 300 * (value_score + stability_score), 1>>
    ELSE IF LastValue >= 3 * FirstValue
    THEN <<3 * 1332 + 300 * (value_score + stability_score), 1>>
    ELSE <<1332 * LastValue + 300 * (value_score + stability_score) * FirstValue,
           FirstValue>>

\* C23: for a non-empty series the investment score is growth * 0.4 +
\* value * 0.3 + stability * 0.3 rounded to one decimal, where growth is
\* min(last value / first value, 3) * 3.33 with the ratio taken as 1 when the
\* first value is not > 0, value is the sub-score of the CR difference and
\* stability the sub-score of the volatility of the positive values.
C23_WeightedScore ==
    ScoreOf =>
        LET total == WeightedTotal(ValueScore(call.cr_diff), StabilityOfCall)
        IN  result.score = Num(RoundDiv(total[1], 100 * total[2]) * (Scale \div 10))

\* 100 then 150 with a CR difference of 0: growth 1.5 * 3.33 = 4.995, value
\* 4, stability 5 (volatility 0.28), total 1.998 + 1.2 + 1.5 = 4.698
C23_Witness ==
    /\ ScoreOf
    /\ call.series = SeriesOf(<<100, 150>>)
    /\ call.cr_diff = 0
    /\ WeightedTotal(4, 5) = <<4698 * 100, 100>>
    /\ result.score = Num(4700)

ValueScores == {4, 6, 8, 10}
StabilityScores == {5, 7, 10}

NonNegativeSeries ==
    \A n \in 1..Len(call.series) : Suburb(call.series[n]) >= 0

\* C24: for a series whose values are all non-negative the investment score
\* lies between 0 and 10 without being clamped: it is the rounded total of a
\* growth sub-score of at most 9.99 (0.4 of it: at most 3.996), a value
\* sub-score in {4, 6, 8, 10} and a stability sub-score in {5, 7, 10}.
C24_ScoreRange ==
    (ScoreOf /\ NonNegativeSeries) =>
        /\ 0 <= result.score.n
        /\ result.score.n <= 10 * Scale
        /\ 0 <= WeightedTotal(0, 0)[1]
        /\ WeightedTotal(0, 0)[1] <= 3996 * WeightedTotal(0, 0)[2]
        /\ \E value_score \in ValueScores : \E stability_score \in StabilityScores :
              LET total == WeightedTotal(value_score, stability_score)
              IN  result.score
                    = Num(RoundDiv(total[1], 100 * total[2]) * (Scale \div 10))

\* 50 then 150 (three times the first price, the cap) with a CR difference
\* of -10.1: 3.996 + 3.0 + 1.5 = 8.496, reported as 8.5
C24_Witness ==
    /\ ScoreOf
    /\ NonNegativeSeries
    /\ call.series = SeriesOf(<<50, 150>>)
    /\ call.cr_diff = -10100
    /\ WeightedTotal(10, 5) = <<8496, 1>>
    /\ result.score = Num(8500)

\* the callouts, by kind
ValueCallouts ==
    {Str("Excellent value - 10.1% below regional average"),
     Str("Good value - 10.0% below regional average"),
     Str("Good value - 5.1% below regional average")}
MomentumCallouts ==
    {Str("Positive price momentum in recent months"),
     Str("Price declining in recent months")}
StabilityCallouts ==
    {Str("Stable market with low volatility"),
     Str("High price volatility - higher risk")}
GrowthCallouts ==
    {Str("Strong long-term growth of 140%"), Str("Strong long-term growth of 150%"),
     Str("Strong long-term growth of 200%"), Str("Strong long-term growth of 275%")}

\* 1: value, 2: momentum, 3: stability, 4: long-term growth, 0: none of them
CalloutKind(insight) ==
    IF insight \in ValueCallouts THEN 1
    ELSE IF insight \in MomentumCallouts THEN 2
    ELSE IF insight \in StabilityCallouts THEN 3
    ELSE IF insight \in GrowthCallouts THEN 4
    ELSE 0

HasCallout(kind) ==
    \E i \in 1..Len(result.insights) : CalloutKind(result.insights[i]) = kind

\* the square of the volatility of the call's positive prices, as a fraction
SquaredVolatility == VolatilityOfCall.sq

\* C25: the insights are emitted in the order value, momentum, stability,
\* long-term growth; each kind appears at most once, and exactly when its
\* condition holds: CR difference < -5; trend rising or declining;
\* volatility < 0.10 or > 0.20; price multiple > 2.
C25_InsightOrder ==
    ScoreOf =>
        /\ \A i \in 1..Len(result.insights) :
              CalloutKind(result.insights[i]) \in 1..4
        /\ \A i, j \in 1..Len(result.insights) :
              i < j => CalloutKind(result.insights[i]) < CalloutKind(result.insights[j])
        /\ HasCallout(1) <=> call.cr_diff < -5 * Scale
        /\ HasCallout(2) <=> result.trend \in {"rising", "declining"}
        /\ HasCallout(3) <=>
              \/ SquaredVolatility[1] * 100 < SquaredVolatility[2]
              \/ SquaredVolatility[1] * 25 > SquaredVolatility[2]
        /\ Str("High price volatility - higher risk") \in
                {result.insights[i] : i \in 1..Len(result.insights)}
              <=> SquaredVolatility[1] * 25 > SquaredVolatility[2]
        /\ HasCallout(4) <=> (FirstValue > 0 /\ LastValue > 2 * FirstValue)

\* 40 then 100 with a CR difference of -5.1: all four callouts, in order
C25_Witness ==
    /\ ScoreOf
    /\ call.series = SeriesOf(<<40, 100>>)
    /\ call.cr_diff = -5100
    /\ result.insights =
          <<Str("Good value - 5.1% below regional average"),
            Str("Positive price momentum in recent months"),
            Str("High price volatility - higher risk"),
            Str("Strong long-term growth of 150%")>>

----------------------------------------------------------------------------
(* Properties of the suburb-detail merge, checked under SpecCanon.         *)

\* the merge ran on a market payload with a nested list
Merged ==
    /\ call.kind = "aggregate_suburb_data"
    /\ ~raised
    /\ IsDict(call.market_data)

\* the entries of the nested list, and the positions of those of a metric
NestedEntries == Get(call.market_data, "results", None).l[1].l
EntriesOf(metric) ==
    {i \in 1..Len(NestedEntries) :
        Get(NestedEntries[i], "metric", None) = Str(metric)}
Least(S) == CHOOSE i \in S : \A j \in S : i <= j
Greatest(S) == CHOOSE i \in S : \A j \in S : j <= i

MergedFields ==
    << <<"sell_price", "medianHousePrice">>, <<"rent_price", "medianRent">> >>

\* int(value) of the entry at a position
EntryValue(i) == Num(IntOf(Get(NestedEntries[i], "value", None).n))

\* C26 (as claimed): in the suburb-detail merge the first entry of a metric
\* wins: medianHousePrice (medianRent) is the value of the first sell_price
\* (rent_price) entry of the nested list, whatever entries of the same
\* metric follow.
C26_FirstEntryWins ==
    Merged =>
        \A k \in 1..2 :
            EntriesOf(MergedFields[k][1]) # {} =>
                Get(result, MergedFields[k][2], None)
                    = EntryValue(Least(EntriesOf(MergedFields[k][1])))

\* C26 (amended): in the suburb-detail merge the last entry of a metric
\* wins: medianHousePrice (medianRent) is the integer part of the value of
\* the last sell_price (rent_price) entry of the nested list, each later
\* entry of the metric replacing the figure of the earlier ones; without an
\* entry of the metric the figure is 0.
C26_LastEntryWins ==
    Merged =>
        \A k \in 1..2 :
            Get(result, MergedFields[k][2], None)
                = IF EntriesOf(MergedFields[k][1]) = {} THEN Num(0)
                  ELSE EntryValue(Greatest(EntriesOf(MergedFields[k][1])))

\* sale figures 500 and then 600.7, and a rent of 450: the record has 600
C26_Witness ==
    /\ Merged
    /\ Len(NestedEntries) = 3
    /\ Get(NestedEntries[1], "value", None) = Whole(500)
    /\ Get(NestedEntries[2], "value", None) = Num(600700)
    /\ EntriesOf("sell_price") = {1, 2}
    /\ EntriesOf("rent_price") = {3}
    /\ Get(result, "medianHousePrice", None) = Whole(600)
    /\ Get(result, "medianRent", None) = Whole(450)

----------------------------------------------------------------------------
(* Properties of get_suburb_details over the real adapters, checked under  *)
(* Spec.                                                                   *)

\* the body the remote service answered a request with (None: a failure)
Answered(endpoint) ==
    IF call.net[endpoint].kind = "ok" THEN call.net[endpoint].body ELSE None

\* the detail view was asked of the real adapters and returned
DetailedRemotely == Detailed /\ call.wiring = "real" /\ ~raised

\* the market payload came through the coordinator from the remote adapter
\* and has a nested list
MarketFromRemote ==
    /\ DetailedRemotely
    /\ Truthy(call.api.market.ret)
    /\ IsList(Get(Answered("/suburb/market"), "results", None))

\* the values of the entries of a metric in that nested list
RemoteValues(metric) ==
    LET entries == Get(Answered("/suburb/market"), "results", None).l[1].l
    IN  {Get(entries[i], "value", None) :
            i \in {j \in 1..Len(entries) :
                      Get(entries[j], "metric", None) = Str(metric)}}

\* the info payload came from the remote adapter with both divisions
InfoFromRemote ==
    /\ DetailedRemotely
    /\ Truthy(call.api.info.ret)
    /\ Truthy(Get(Get(Answered("/suburb/info"), "information", EmptyDict),
                  "geo_divisions", EmptyDict))

\* C27: when get_suburb_details obtains its market payload through the
\* coordinator from the remote adapter and the payload's nested results list
\* has a sell_price entry with value v and a rent_price entry with value r,
\* the returned record has medianHousePrice = v and medianRent = r (as
\* integers); likewise state and postcode are those of the info payload's
\* geo_divisions.
C27_RemoteFiguresReachRecord ==
    /\ MarketFromRemote =>
          /\ \A v \in RemoteValues("sell_price") :
                Get(result, "medianHousePrice", None) = Num(IntOf(v.n))
          /\ \A r \in RemoteValues("rent_price") :
                Get(result, "medianRent", None) = Num(IntOf(r.n))
    /\ InfoFromRemote =>
          LET geo_div == Get(Get(Answered("/suburb/info"), "information", None),
                             "geo_divisions", None)
          IN  /\ Get(result, "state", None) = Get(geo_div, "state", None)
              /\ Get(result, "postcode", None) = Get(geo_div, "poa", None)

----------------------------------------------------------------------------
(* Properties of the developments transform, checked under SpecCanon.      *)

\* the developments transform was applied to a payload with a results list
DevelopmentsOf ==
    /\ call.kind = "transform"
    /\ call.op = "get_developments"
    /\ IsDict(call.raw_data)
    /\ IsList(Get(call.raw_data, "results", None))

RawResults == Get(call.raw_data, "results", None).l
Emitted == Get(result, "developments", None).l
Minimum(a, b) == IF a < b THEN a ELSE b

\* the positions among the first 50 raw entries that hold a record
RecordsLookedAt ==
    {i \in 1..Minimum(Len(RawResults), DevelopmentsCap) : IsDict(RawResults[i])}

\* C28: the developments transform looks at the first 50 raw entries only;
\* 'total' is the number of raw entries and 'showing' the number of emitted
\* entries, so showing <= min(total, 50) and showing is the length of the
\* emitted list, which has one entry per record among those first 50.
C28_TotalAndShowing ==
    DevelopmentsOf =>
        /\ ~raised
        /\ Get(result, "total", None) = Whole(Len(RawResults))
        /\ Get(result, "showing", None) = Whole(Len(Emitted))
        /\ Len(Emitted) <= Minimum(Len(RawResults), DevelopmentsCap)
        /\ Len(Emitted) = Cardinality(RecordsLookedAt)
        /\ \A n \in 1..Len(Emitted) :
              \E i \in RecordsLookedAt :
                  Get(Emitted[n], "id", None)
                      = Get(RawResults[i], "id", Str("dev-" \o ToString(i - 1)))

\* 52 raw entries, the first of them no record: 52 in total, 49 shown, and
\* the 51st entry (DA-51) is not among them
C28_Witness ==
    /\ DevelopmentsOf
    /\ Len(RawResults) = DevelopmentsCap + 2
    /\ ~IsDict(RawResults[1])
    /\ Get(result, "total", None) = Whole(52)
    /\ Get(result, "showing", None) = Whole(49)
    /\ Len(Emitted) = 49
    /\ \A n \in 1..Len(Emitted) : Get(Emitted[n], "id", None) # Str("DA-51")

----------------------------------------------------------------------------
(* Properties of the suburb routes, checked under Spec.                     *)

\* a suburb route was asked, and the identifier of its URL
RouteAsked == call.kind \in {"route", "route_rejected"}
RouteId ==
    IF call.kind = "route" THEN call.args.suburb_id ELSE call.suburb_id

\* neither adapter was called, no request was sent and no file was read
NothingFetched ==
    /\ apiLog = <<>>
    /\ fileLog = <<>>
    /\ requests = <<>>
    /\ loads = <<>>

\* C29: a suburb route validates the identifier before it fetches: for an
\* identifier that is not lower-case words with at most one four-digit
\* postcode after them, nothing is fetched and the answer is a 400; and a
\* 404 is only the answer to a fetch that came back empty.
C29_ValidationBeforeFetch ==
    RouteAsked =>
        /\ ~MatchesPattern(Spelling(RouteId)) =>
              status = 400 /\ NothingFetched
        /\ status = 400 => NothingFetched
        /\ status = 404 =>
              /\ call.kind = "route"
              /\ ~raised
              /\ result = None

\* the identifier that slips through: 'carlton-3053' followed by a line feed
C29_SlipsThrough ==
    /\ call.kind = "route"
    /\ ~MatchesPattern(Spelling(RouteId))
    /\ ~NothingFetched

----------------------------------------------------------------------------
(* Properties of the market-trends transform, checked under SpecCanon.      *)

\* the market-trends transform was applied to a raw payload
MarketOf == call.kind = "transform" /\ call.op = "get_market_trends"

\* the list the transform scans: raw_data['results'], unwrapped
ScannedResults == MarketResults(Get(call.raw_data, "results", None))

\* a record that gives the series a point
IsHousePoint(item) ==
    /\ IsDict(item)
    /\ Get(item, "metric", None) = Str("sell_price")
    /\ Get(item, "property_type", None) = Str("house")
    /\ Truthy(Get(item, "date", Str("")))

NoResultsKey ==
    \/ ~Truthy(call.raw_data)
    \/ IsDict(call.raw_data) /\ ~Has(call.raw_data, "results")

NoHousePointListed ==
    /\ IsDict(call.raw_data)
    /\ Has(call.raw_data, "results")
    /\ IsList(ScannedResults)
    /\ \A i \in 1..Len(ScannedResults.l) : ~IsHousePoint(ScannedResults.l[i])

ZeroRegion(region) ==
    LET compared == Get(Get(result, "regionalComparison", None), region, None)
    IN  /\ Get(compared, "price", None) = Num(0)
        /\ Get(compared, "difference", None) = Num(0)
        /\ Get(compared, "status", None) = Str("below")

Zeroed ==
    /\ ~raised
    /\ Get(result, "priceHistory", None) = EmptyList
    /\ Get(result, "currentPrice", None) = Num(0)
    /\ \A span \in {"1year", "5year", "total"} :
          Get(Get(result, "priceGrowth", None), span, None) = Num(0)
    /\ Get(result, "investmentScore", None) = Num(0)
    /\ Get(Get(result, "analytics", None), "volatility", None) = Str("low")
    /\ Get(Get(result, "analytics", None), "trend", None) = Str("stable")
    /\ Get(Get(result, "analytics", None), "insights", None) = EmptyList
    /\ ZeroRegion("cr")
    /\ ZeroRegion("sa3")

\* C30: a raw market payload that gives no sell_price/house point (it has no
\* 'results' key, or its results are an empty list or hold only other
\* metrics and property types) is transformed into the zeroed bundle: no
\* price history, price, growth figures and score 0, volatility 'low',
\* trend 'stable', no insights, and both regions with price 0, difference 0
\* and status 'below'.
C30_ZeroedBundle ==
    MarketOf /\ (NoResultsKey \/ NoHousePointListed) => Zeroed

\* results that hold a rent record and a unit record only, zeroed
C30_Witness ==
    /\ MarketOf
    /\ NoHousePointListed
    /\ Len(ScannedResults.l) = 2
    /\ \A i \in 1..2 : IsDict(ScannedResults.l[i])
    /\ Get(ScannedResults.l[1], "metric", None) = Str("rent_price")
    /\ Get(ScannedResults.l[2], "property_type", None) = Str("unit")
    /\ Zeroed

====
